---- MODULE Spec2Model ----
(***************************************************************************)
(* State-machine model of the dke-server RAG query pipeline:               *)
(*   EmbeddingService (cache, provider retry), VectorService.searchSimilar,*)
(*   RAGService (processQuery, batchProcessQueries, history, metrics) and  *)
(*   the rag controller.                                                   *)
(* Strings are sequences of one-character strings, so that cleaning,       *)
(* hashing and substring tests are computed as the code computes them.     *)
(* Every await of the code is a suspension point: the synchronous code     *)
(* between two awaits of one call is one atomic action.                    *)
(***************************************************************************)
EXTENDS Integers, Sequences, FiniteSets, TLC

VARIABLES
  calls,               \* call id -> state of one processQuery / generateEmbedding call
  batch,               \* state of the batchProcessQueries call
  embeddingCache,      \* EmbeddingService.embeddingCache, a Map in insertion order
  providerLog,         \* embedding-provider requests per cleaned text (observer)
  store,               \* fragments held by the vector store
  queryHistory,        \* RAGService.queryHistory, a Map in insertion order
  performanceMetrics,  \* RAGService.performanceMetrics
  now,                 \* the clock, in hours
  nextId,              \* source of fresh history ids (Date.now() + Math.random())
  settled,             \* call ids in the order their promises settled (observer)
  historyReply,        \* what the last getQueryHistory call returned
  faultsLeft,          \* provider failures the environment may still inject
  textChunker,         \* the TextChunker object: maxChunkSize, overlapSize, separators
  splitCall,           \* the splitText call: its argument and what it returned
  request,             \* an HTTP request on its way through the middleware chain
  embedBatch,          \* state of the generateEmbeddings call
  retention            \* the vector service's cleanup timer and requests to the store

vars == << calls, batch, embeddingCache, providerLog, store, queryHistory,
           performanceMetrics, now, nextId, settled, historyReply, faultsLeft,
           textChunker, splitCall, request, embedBatch, retention >>

None == "none"
Unlimited == 0 - 1     \* faultsLeft when the failures are not limited

(***************************************************************************)
(* Bounds of the model.                                                    *)
(***************************************************************************)
MaxBatchLen == 4       \* longest queries list given to batchProcessQueries
MaxEmbedCalls == 2     \* direct generateEmbedding calls
MaxFaults == 1         \* provider failures injected while calls overlap
MaxNow == 2            \* clock steps
MaxHistoryCalls == 1   \* processQuery calls on top of a full history
MaxMetricCalls == 2    \* processQuery calls whose confidences are averaged
MaxCountCalls == 2     \* processQuery calls counted in the metrics
MaxDocuments == 1      \* documents uploaded while the cleanup job runs
MaxSearchCalls == 1    \* searchSimilar calls while the cleanup job runs

(***************************************************************************)
(* Strings.                                                                *)
(***************************************************************************)
LowerLetters == << "a","b","c","d","e","f","g","h","i","j","k","l","m",
                   "n","o","p","q","r","s","t","u","v","w","x","y","z" >>
UpperLetters == << "A","B","C","D","E","F","G","H","I","J","K","L","M",
                   "N","O","P","Q","R","S","T","U","V","W","X","Y","Z" >>
Digits == << "0","1","2","3","4","5","6","7","8","9" >>

Range(s) == { s[i] : i \in DOMAIN s }

IndexOf(s, x) == CHOOSE i \in DOMAIN s : s[i] = x

\* String.prototype.toLowerCase, one character
LowerChar(ch) ==
  IF ch \in Range(UpperLetters) THEN LowerLetters[IndexOf(UpperLetters, ch)] ELSE ch

toLowerCase(str) == [ i \in DOMAIN str |-> LowerChar(str[i]) ]

\* String.prototype.includes
includes(str, snippet) ==
  \E k \in 0 .. (Len(str) - Len(snippet)) :
     \A j \in 1 .. Len(snippet) : str[k + j] = snippet[j]

\* String.prototype.substring(0, n)
substring(str, n) == IF Len(str) <= n THEN str ELSE SubSeq(str, 1, n)

IsSpace(ch) == ch \in { " ", "\t", "\n", "\r" }

IsWordChar(ch) ==
  ch \in Range(LowerLetters) \cup Range(UpperLetters) \cup Range(Digits) \cup { "_" }

RECURSIVE TrimLeft(_)
TrimLeft(str) ==
  IF str # << >> /\ IsSpace(Head(str)) THEN TrimLeft(Tail(str)) ELSE str

RECURSIVE TrimRight(_)
TrimRight(str) ==
  IF str # << >> /\ IsSpace(str[Len(str)])
  THEN TrimRight(SubSeq(str, 1, Len(str) - 1)) ELSE str

\* String.prototype.trim
trim(str) == TrimRight(TrimLeft(str))

(***************************************************************************)
(* Error messages of the providers and of the code.                        *)
(***************************************************************************)
MsgTimeout == <<"R","e","q","u","e","s","t"," ","t","i","m","e","o","u","t">>
MsgHttp429 == <<"H","T","T","P"," ","e","r","r","o","r"," ","4","2","9">>
MsgUnavailable == <<"S","e","r","v","i","c","e"," ","U","n","a","v","a","i","l","a","b","l","e">>
MsgUnauthorized == <<"U","n","a","u","t","h","o","r","i","z","e","d">>
MsgInvalidEmbedding == <<"G","e","n","e","r","a","t","e","d"," ","e","m","b","e","d","d","i","n","g"," ","i","s"," ","i","n","v","a","l","i","d">>
MsgInvalidResponse == <<"I","n","v","a","l","i","d"," ","r","e","s","p","o","n","s","e"," ","f","r","o","m"," ","M","i","s","t","r","a","l"," ","A","I">>
MsgEmptyText == <<"T","e","x","t"," ","i","s"," ","e","m","p","t","y"," ","a","f","t","e","r"," ","c","l","e","a","n","i","n","g">>
MsgNoText == <<"T","e","x","t"," ","m","u","s","t"," ","b","e"," ","a"," ","n","o","n","-","e","m","p","t","y"," ","s","t","r","i","n","g">>
MsgNoQuery == <<"Q","u","e","r","y"," ","m","u","s","t"," ","b","e"," ","a"," ","n","o","n","-","e","m","p","t","y"," ","s","t","r","i","n","g">>
MsgNoEmbedding == <<"F","a","i","l","e","d"," ","t","o"," ","g","e","n","e","r","a","t","e"," ","q","u","e","r","y"," ","e","m","b","e","d","d","i","n","g">>
MsgBadQueryEmbedding == <<"Q","u","e","r","y"," ","e","m","b","e","d","d","i","n","g"," ","m","u","s","t"," ","b","e"," ","a"," ","n","o","n","-","e","m","p","t","y"," ","a","r","r","a","y">>

\* Errors a provider call can end with
ProviderErrors == { MsgTimeout, MsgHttp429, MsgUnavailable, MsgUnauthorized }

retryableSnippets ==
  { <<"t","i","m","e","o","u","t">>,
    <<"t","i","m","e","d"," ","o","u","t">>,
    <<"r","a","t","e"," ","l","i","m","i","t">>,
    <<"t","o","o"," ","m","a","n","y"," ","r","e","q","u","e","s","t","s">>,
    <<"e","c","c","o","n","n","r","e","s","e","t">>,
    <<"s","o","c","k","e","t"," ","h","a","n","g"," ","u","p">>,
    <<"n","e","t","w","o","r","k">>,
    <<"s","e","r","v","i","c","e"," ","u","n","a","v","a","i","l","a","b","l","e">>,
    <<"g","a","t","e","w","a","y"," ","t","i","m","e","o","u","t">>,
    <<"b","a","d"," ","g","a","t","e","w","a","y">>,
    <<"t","e","m","p","o","r","a","r","y">>,
    <<"f","e","t","c","h"," ","f","a","i","l","e","d">> }

\* RAGService.isRetryableError, on the error's message
isRetryableError(message) ==
  IF message = << >> THEN FALSE
  ELSE \E s \in retryableSnippets : includes(toLowerCase(message), s)

embeddingRetryableSnippets ==
  { <<"t","i","m","e","o","u","t">>,
    <<"r","a","t","e">>,
    <<"4","2","9">>,
    <<"n","e","t","w","o","r","k">>,
    <<"h","t","t","p"," ","e","r","r","o","r">>,
    <<"f","e","t","c","h">> }

\* the `retryable` flag of the retry loop inside EmbeddingService.generateEmbedding
embeddingRetryable(message) ==
  \E s \in embeddingRetryableSnippets : includes(toLowerCase(message), s)

maxRetries == 3

(***************************************************************************)
(* EmbeddingService: text cleaning, truncation, cache key, cache.          *)
(***************************************************************************)
maxLength == 512
embeddingCacheCapacity == 1000

\* text.replace(/\s+/g, ' '): every run of whitespace becomes one space
CollapseWhitespace(str) ==
  LET marked == [ i \in DOMAIN str |->
                    [ ch |-> IF IsSpace(str[i]) THEN " " ELSE str[i],
                      keep |-> ~ IsSpace(str[i]) \/ i = 1 \/ ~ IsSpace(str[i - 1]) ] ]
      kept == SelectSeq(marked, LAMBDA m : m.keep)
  IN [ k \in DOMAIN kept |-> kept[k].ch ]

\* the characters /[^\w\s.,!?-]/g leaves in place
IsAllowedChar(ch) == IsWordChar(ch) \/ IsSpace(ch) \/ ch \in { ".", ",", "!", "?", "-" }

\* EmbeddingService.cleanText
cleanText(text) == trim(SelectSeq(CollapseWhitespace(text), IsAllowedChar))

IsSentenceEnd(ch) == ch \in { ".", "!", "?" }
IsBlank(ch) == ch = " "

\* String.prototype.split on runs of separator characters (a regex /[..]+/):
\* SplitRuns(str, IsSep, <<>>) is the list of pieces
SplitRuns(str, IsSep(_), piece) ==
  LET n == Len(str)
      indices == [ i \in 1 .. n |-> i ]
      starts == SelectSeq(indices, LAMBDA i : IsSep(str[i]) /\ (i = 1 \/ ~ IsSep(str[i - 1])))
      ends == SelectSeq(indices, LAMBDA i : IsSep(str[i]) /\ (i = n \/ ~ IsSep(str[i + 1])))
  IN [ k \in 1 .. Len(starts) + 1 |->
         (IF k = 1 THEN piece ELSE << >>)
           \o SubSeq(str, IF k = 1 THEN 1 ELSE ends[k - 1] + 1,
                          IF k = Len(starts) + 1 THEN n ELSE starts[k] - 1) ]

\* String.prototype.split(' '): every separator character ends a piece
SplitEach(str, IsSep(_), piece) ==
  LET n == Len(str)
      seps == SelectSeq([ i \in 1 .. n |-> i ], LAMBDA i : IsSep(str[i]))
      edges == << 0 >> \o seps \o << n + 1 >>
  IN [ k \in 1 .. Len(seps) + 1 |->
         (IF k = 1 THEN piece ELSE << >>) \o SubSeq(str, edges[k] + 1, edges[k + 1] - 1) ]

\* the sentence loop of truncateText: add sentences while they fit
RECURSIVE AddSentences(_, _)
AddSentences(sentences, truncated) ==
  IF sentences = << >> THEN truncated
  ELSE IF Len(truncated \o Head(sentences)) <= maxLength
       THEN AddSentences(Tail(sentences), truncated \o Head(sentences) \o << "." >>)
       ELSE truncated

\* the word loop of truncateText: add words while they fit
RECURSIVE AddWords(_, _)
AddWords(words, truncated) ==
  IF words = << >> THEN truncated
  ELSE IF Len(truncated \o Head(words) \o << " " >>) <= maxLength
       THEN AddWords(Tail(words), truncated \o Head(words) \o << " " >>)
       ELSE truncated

\* EmbeddingService.truncateText
truncateText(text) ==
  IF Len(text) <= maxLength THEN text
  ELSE LET bySentence == AddSentences(SplitRuns(text, IsSentenceEnd, << >>), << >>)
           truncated == IF Len(bySentence) = 0
                        THEN trim(AddWords(SplitEach(text, IsBlank, << >>), << >>))
                        ELSE bySentence
       IN IF truncated # << >> THEN truncated ELSE substring(text, maxLength)

\* String.prototype.charCodeAt for the characters of the model
charCodeAt(ch) ==
  IF ch \in Range(LowerLetters) THEN 96 + IndexOf(LowerLetters, ch)
  ELSE IF ch \in Range(UpperLetters) THEN 64 + IndexOf(UpperLetters, ch)
  ELSE IF ch \in Range(Digits) THEN 47 + IndexOf(Digits, ch)
  ELSE CASE ch = " " -> 32 [] ch = "!" -> 33 [] ch = "#" -> 35 [] ch = "," -> 44
         [] ch = "-" -> 45 [] ch = "." -> 46 [] ch = "?" -> 63 [] ch = "_" -> 95
         [] ch = ":" -> 58
         [] ch = "\t" -> 9 [] ch = "\n" -> 10 [] ch = "\r" -> 13
         [] OTHER -> 64

\* One round of generateCacheKey's loop on a 32-bit integer held as two 16-bit
\* halves: hash = ((hash << 5) - hash) + char; hash = hash & hash
HashStep(h, code) ==
  LET lo == h.lo * 31 + code
      hi == h.hi * 31 + (lo \div 65536)
  IN [ lo |-> lo % 65536, hi |-> hi % 65536 ]

RECURSIVE HashLoop(_, _)
HashLoop(text, h) ==
  IF text = << >> \/ h.lo < 0 THEN h
  ELSE IF Len(text) = 1 THEN HashStep(h, charCodeAt(Head(text)))
  ELSE LET half == Len(text) \div 2
       IN HashLoop(SubSeq(text, half + 1, Len(text)), HashLoop(SubSeq(text, 1, half), h))

\* EmbeddingService.generateCacheKey: the signed 32-bit hash; hash.toString()
\* is one-to-one on integers, the key is held as the integer
generateCacheKey(text) ==
  LET h == HashLoop(text, [ lo |-> 0, hi |-> 0 ])
  IN IF h.hi >= 32768 THEN (h.hi - 65536) * 65536 + h.lo ELSE h.hi * 65536 + h.lo

\* Map.prototype.has / get / set / delete of the first key, on a Map held as
\* the sequence of its entries in insertion order
MapHas(map, key) == \E i \in DOMAIN map : map[i].key = key

MapGet(map, key) == map[CHOOSE i \in DOMAIN map : map[i].key = key].value

MapSet(map, key, value) ==
  IF MapHas(map, key)
  THEN [ i \in DOMAIN map |-> IF map[i].key = key THEN [ key |-> key, value |-> value ]
                                                  ELSE map[i] ]
  ELSE Append(map, [ key |-> key, value |-> value ])

MapDeleteFirst(map) == Tail(map)

\* a variant of the cache insertion that evicts the entry inserted last before
\* the new one
CacheStoreEvictRecent(cache, key, embedding) ==
  LET added == MapSet(cache, key, embedding)
  IN IF Len(added) > embeddingCacheCapacity
     THEN SubSeq(added, 1, Len(added) - 2) \o << added[Len(added)] >>
     ELSE added
\* lines 81-86 of generateEmbedding: cache the embedding, evict above capacity
CacheStore(cache, key, embedding) ==
  LET added == MapSet(cache, key, embedding)
  IN IF Len(added) > embeddingCacheCapacity THEN MapDeleteFirst(added) ELSE added

\* The embedding the provider computes for an input text
ProviderEmbedding(input) == [ of |-> input ]

(***************************************************************************)
(* VectorService.searchSimilar and the vector store.                       *)
(* A where-clause is a function from metadata keys to conditions; the      *)
(* store returns the nearest fragments whose metadata meet every condition.*)
(***************************************************************************)
Gt(value) == [ op |-> "$gt", value |-> value ]
Lt(value) == [ op |-> "$lt", value |-> value ]
Eq(value) == [ op |-> "$eq", value |-> value ]

\* the fragments documents have been ingested as: id, metadata
Fragment(id, documentId, expiresAtMs) ==
  [ id |-> id, metadata |-> [ documentId |-> documentId, expiresAtMs |-> expiresAtMs ] ]

\* { expiresAtMs: { $gt: nowMs }, ...(filter || {}) }: a key of the filter
\* replaces the same key of the expiry condition
Spread(base, filter) ==
  [ k \in DOMAIN base \cup DOMAIN filter |-> IF k \in DOMAIN filter THEN filter[k] ELSE base[k] ]

NoFilter == [ k \in {} |-> Eq(None) ]

\* line 125 of searchSimilar
WhereClause(nowMs, filter) == Spread([ expiresAtMs |-> Gt(nowMs) ], filter)

\* the order of two texts by their code units, as < compares strings
StringLess(a, b) ==
  \/ Len(a) < Len(b) /\ SubSeq(b, 1, Len(a)) = a
  \/ \E i \in DOMAIN a \cap DOMAIN b :
        /\ SubSeq(a, 1, i - 1) = SubSeq(b, 1, i - 1)
        /\ charCodeAt(a[i]) < charCodeAt(b[i])

\* $gt compares numbers; $lt is given a text by the retention sweep and is
\* taken to compare texts
Holds(value, cond) ==
  CASE cond.op = "$gt" -> value > cond.value
    [] cond.op = "$eq" -> value = cond.value
    [] cond.op = "$lt" -> StringLess(value, cond.value)

\* the store's evaluation of a where-clause on one fragment
Matches(fragment, where) ==
  \A k \in DOMAIN where :
     k \in DOMAIN fragment.metadata /\ Holds(fragment.metadata[k], where[k])

\* distances the store may report, in tenths
DistanceChoices == { 0, 5, 10, 15 }

IsSortedByDistance(rows) ==
  \A a, b \in DOMAIN rows : a < b => rows[a].distance <= rows[b].distance

Min(a, b) == IF a <= b THEN a ELSE b

\* The answers collection.query can give: the nResults nearest fragments that
\* meet the where-clause, nearest first, each with its distance
StoreAnswers(fragments, where, nResults, distances) ==
  LET matching == { f \in fragments : Matches(f, where) }
      n == Min(nResults, Cardinality(matching))
  IN { rows \in [ 1 .. n -> [ fragment : matching, distance : distances ] ] :
         /\ \A a, b \in 1 .. n : a # b => rows[a].fragment # rows[b].fragment
         /\ IsSortedByDistance(rows) }

\* lines 150-156 of searchSimilar: relevance = 1 - distance, in tenths
ToSearchResults(rows) ==
  [ k \in DOMAIN rows |-> [ id |-> rows[k].fragment.id,
                            metadata |-> rows[k].fragment.metadata,
                            distance |-> rows[k].distance,
                            relevance |-> 10 - rows[k].distance ] ]

(***************************************************************************)
(* RAGService.generateResponse: the answer and the derived confidence.     *)
(***************************************************************************)
RECURSIVE SumRelevance(_)
SumRelevance(results) ==
  IF results = << >> THEN 0 ELSE Head(results).relevance + SumRelevance(Tail(results))

\* lines 298-299: Math.min(averageRelevance * 0.8 + 0.2, 1.0) as the exact
\* fraction num / den, relevance being in tenths:
\*   (sum / (10 n)) * 0.8 + 0.2 = (8 sum + 20 n) / (100 n)
Confidence(results) ==
  LET n == Len(results)
      num == 8 * SumRelevance(results) + 20 * n
      den == 100 * n
  IN [ num |-> Min(num, den), den |-> den ]

ZeroConfidence == [ num |-> 0, den |-> 1 ]

\* lines 277-292: the text and token count read from the provider's response
ResponseAnswer(response) ==
  IF response.output_text # << >> THEN response.output_text
  ELSE IF response.choices # << >> THEN response.choices
  ELSE IF response.message # << >> THEN response.message
  ELSE response.output

Response(output_text, choices, message, output, tokens) ==
  [ output_text |-> output_text, choices |-> choices, message |-> message,
    output |-> output, totalTokens |-> tokens ]

AnswerText == << "o", "k" >>

\* responses the generation provider gives in the model
GenerationResponses ==
  { Response(AnswerText, << >>, << >>, << >>, 7),
    Response(<< >>, AnswerText, << >>, << >>, 0),
    Response(<< >>, << >>, << >>, << >>, 0) }

NoInfoAnswer == <<"I"," ","c","o","u","l","d"," ","n","o","t"," ","f","i","n","d"," ","a","n","y"," ","r","e","l","e","v","a","n","t"," ","i","n","f","o","r","m","a","t","i","o","n"," ","t","o"," ","a","n","s","w","e","r"," ","y","o","u","r"," ","q","u","e","s","t","i","o","n",".">>

(***************************************************************************)
(* RAGService: query history and performance metrics.                      *)
(***************************************************************************)
historyCapacity == 1000
historyTTL == 30 * 24          \* 30 * 24 * 60 * 60 * 1000 ms, in hours

\* Math.round(a / b) for b > 0
Round(a, b) == (2 * a + b) \div (2 * b)

InitialMetrics ==
  [ totalQueries |-> 0, successfulQueries |-> 0, failedQueries |-> 0,
    totalTokensUsed |-> 0, averageProcessingTime |-> 0,
    averageConfidence |-> 0,      \* in hundredths
    lastQueryTime |-> -1 ]        \* -1 is null

\* a variant of saveQueryHistory whose key is the time of the save alone
saveQueryHistoryKeyedByTime(history, id, query, result, processingTime, time) ==
  MapSet(history, time, [ id |-> id,
                          query |-> substring(query, 200),
                          answer |-> substring(result.answer, 500),
                          sources |-> Len(result.sources),
                          confidence |-> result.confidence,
                          processingTime |-> processingTime,
                          timestamp |-> time,
                          tokensUsed |-> result.totalTokensUsed ])
\* a variant of saveQueryHistory that never evicts
saveQueryHistoryNoEvict(history, id, query, result, processingTime, time) ==
  MapSet(history, id, [ id |-> id,
                        query |-> substring(query, 200),
                        answer |-> substring(result.answer, 500),
                        sources |-> Len(result.sources),
                        confidence |-> result.confidence,
                        processingTime |-> processingTime,
                        timestamp |-> time,
                        tokensUsed |-> result.totalTokensUsed ])
\* RAGService.saveQueryHistory: add the entry, evict the oldest above capacity
saveQueryHistory(history, id, query, result, processingTime, time) ==
  LET historyEntry == [ id |-> id,
                        query |-> substring(query, 200),
                        answer |-> substring(result.answer, 500),
                        sources |-> Len(result.sources),
                        confidence |-> result.confidence,
                        processingTime |-> processingTime,
                        timestamp |-> time,
                        tokensUsed |-> result.totalTokensUsed ]
      added == MapSet(history, id, historyEntry)
  IN IF Len(added) > historyCapacity THEN MapDeleteFirst(added) ELSE added

\* RAGService.cleanupExpiredHistory
cleanupExpiredHistory(history, time) ==
  SelectSeq(history, LAMBDA e : ~ (time - e.value.timestamp > historyTTL))

\* a variant of updatePerformanceMetrics that averages the old average and the
\* new value without their weights
updatePerformanceMetricsUnweighted(metrics, result, processingTime, success, time) ==
  LET counted == [ metrics EXCEPT !.totalQueries = @ + 1, !.lastQueryTime = time ]
  IN IF success
     THEN [ counted EXCEPT
              !.successfulQueries = @ + 1,
              !.totalTokensUsed = @ + result.totalTokensUsed,
              !.averageProcessingTime = Round(metrics.averageProcessingTime + processingTime, 2),
              !.averageConfidence =
                 Round(metrics.averageConfidence * result.confidence.den
                         + 100 * result.confidence.num,
                       2 * result.confidence.den) ]
     ELSE [ counted EXCEPT !.failedQueries = @ + 1 ]
\* RAGService.updatePerformanceMetrics
updatePerformanceMetrics(metrics, result, processingTime, success, time) ==
  LET n == metrics.successfulQueries + 1
      counted == [ metrics EXCEPT !.totalQueries = @ + 1, !.lastQueryTime = time ]
  IN IF success
     THEN [ counted EXCEPT
              !.successfulQueries = n,
              !.totalTokensUsed = @ + result.totalTokensUsed,
              !.averageProcessingTime =
                 Round(metrics.averageProcessingTime * (n - 1) + processingTime, n),
              !.averageConfidence =
                 Round(metrics.averageConfidence * (n - 1) * result.confidence.den
                         + 100 * result.confidence.num,
                       n * result.confidence.den) ]
     ELSE [ counted EXCEPT !.failedQueries = @ + 1 ]

(***************************************************************************)
(* Calls.  A call is one invocation of RAGService.processQuery (kind       *)
(* "query"), EmbeddingService.generateEmbedding (kind "embed") or          *)
(* VectorService.searchSimilar (kind "search").  The operators below take  *)
(* the world w (the calls and the services' shared state) and a call id,   *)
(* and give the world after the call's synchronous code up to its next     *)
(* await.                                                                  *)
(***************************************************************************)
NoEmbedding == [ of |-> << >> ]
NoResult == [ none |-> TRUE ]
NoArgument == [ type |-> "undefined", documentId |-> None ]
StringArgument(d) == [ type |-> "string", documentId |-> d ]
ObjectArgument(d) == [ type |-> "object", documentId |-> d ]

\* The fields of a call.  supplied, stages, found, raised and cachedBefore are
\* observers: the documentId the caller supplied, the stages the current attempt
\* has entered, the number of fragments its search returned (-1: none yet), the
\* last error a stage raised, and whether, when the current generateEmbedding
\* call started, an earlier call had fetched the embedding of the same cleaned
\* text and the cache still held it.
\* requests a call has made to each provider, noted while the log observes
NoRequests == [ embedding |-> 0, retrieval |-> 0, generation |-> 0 ]

IdleCall ==
  [ kind |-> "query", via |-> "none", pc |-> "idle", query |-> << >>, maxResults |-> 5,
    documentId |-> None, filter |-> NoFilter, where |-> NoFilter,
    attempt |-> 0, i |-> 0, embAttempt |-> 0, input |-> << >>,
    queryEmbedding |-> NoEmbedding, searchResults |-> << >>, lastError |-> << >>,
    result |-> NoResult, error |-> << >>, startTime |-> 0,
    supplied |-> None, stages |-> << >>, found |-> 0 - 1, raised |-> << >>,
    cachedBefore |-> FALSE, sent |-> NoRequests ]

Settled(call) == call.pc \in { "returned", "thrown" }
InFlight(call) == call.pc \notin { "idle", "returned", "thrown" }

\* line 61 of processQuery:
\*   const { documentId } = typeof query === 'object' ? query : (arguments[3] || {})
\* a string has no documentId property
ExtractDocumentId(argument) ==
  IF argument.type = "object" THEN argument.documentId ELSE None

Count(log, key) == IF key \in DOMAIN log THEN log[key] ELSE 0

\* a stage raises an error
Raise(w, c, message) == [ w EXCEPT !.calls[c].raised = message ]

\* the call's promise rejects with the error
Throw(w, c, message) ==
  [ w EXCEPT !.calls[c].pc = "thrown", !.calls[c].error = message,
             !.settled = Append(@, c) ]

\* the call's promise resolves with the result
Return(w, c, result) ==
  [ w EXCEPT !.calls[c].pc = "returned", !.calls[c].result = result,
             !.settled = Append(@, c) ]

\* a variant of the catch block that counts every caught attempt as a failed
\* query
ProcessQueryCatchCounting(w, c, message) ==
  LET counted == [ w EXCEPT !.met = updatePerformanceMetrics(@, NoResult, 0, FALSE,
                                                             @.lastQueryTime) ]
  IN IF w.calls[c].attempt < maxRetries /\ isRetryableError(message)
     THEN [ counted EXCEPT !.calls[c].pc = "backoff", !.calls[c].lastError = message ]
     ELSE Throw(counted, c, message)
\* a variant of the catch block that retries whatever the error is
ProcessQueryCatchAlways(w, c, message) ==
  IF w.calls[c].attempt < maxRetries
  THEN [ w EXCEPT !.calls[c].pc = "backoff", !.calls[c].lastError = message ]
  ELSE Throw(w, c, message)
\* a variant of the catch block that allows one retry more
ProcessQueryCatchFour(w, c, message) ==
  IF w.calls[c].attempt < maxRetries + 1 /\ isRetryableError(message)
  THEN [ w EXCEPT !.calls[c].pc = "backoff", !.calls[c].lastError = message ]
  ELSE Throw(w, c, message)
\* lines 141-167: the catch block of processQuery
ProcessQueryCatch(w, c, message) ==
  IF w.calls[c].attempt < maxRetries /\ isRetryableError(message)
  THEN [ w EXCEPT !.calls[c].pc = "backoff", !.calls[c].lastError = message ]
  ELSE Throw(w, c, message)

\* the catch blocks of generateEmbeddingWithRetry,
\* searchDocumentsWithRetryWithFilter and generateResponseWithRetry
StageCatch(w, c, message, waitPc) ==
  IF w.calls[c].i < maxRetries /\ isRetryableError(message)
  THEN [ w EXCEPT !.calls[c].pc = waitPc, !.calls[c].lastError = message ]
  ELSE ProcessQueryCatch([ w EXCEPT !.calls[c].lastError = message ], c, message)

\* lines 112-139: build the result, save it, count it, return it
Succeed(w, c, answer, tokens, time) ==
  LET call == w.calls[c]
      processingTime == time - call.startTime
      result == [ query |-> call.query, answer |-> answer,
                  sources |-> call.searchResults,
                  confidence |-> Confidence(call.searchResults),
                  processingTime |-> processingTime,
                  totalTokensUsed |-> tokens, attempts |-> call.attempt,
                  scopedDocumentId |-> call.documentId ]
      saved == [ w EXCEPT
                   !.hist = saveQueryHistory(@, w.nid, call.query, result,
                                             processingTime, time),
                   !.nid = @ + 1,
                   !.met = updatePerformanceMetrics(@, result, processingTime,
                                                    TRUE, time) ]
  IN Return(saved, c, result)

\* generateResponse after the provider's response (lines 277-311), inside
\* generateResponseWithRetry
GenerateReturn(w, c, response, time) ==
  IF ResponseAnswer(response) = << >>
  THEN StageCatch(Raise(w, c, MsgInvalidResponse), c, MsgInvalidResponse, "genStageWait")
  ELSE Succeed(w, c, ResponseAnswer(response), response.totalTokens, time)

\* generateResponse up to its await of the provider (lines 243-262)
CallGenerate(w, c) ==
  [ w EXCEPT !.calls[c].pc = "genReq",
             !.calls[c].sent.generation = IF w.log.observe THEN @ + 1 ELSE @,
             !.calls[c].stages = IF @ # << >> /\ @[Len(@)] = "synthesizing"
                                 THEN @ ELSE Append(@, "synthesizing") ]

\* a variant in which a failed search of processQuery is followed by generation
SearchThrowThenGenerate(w, c, message) ==
  IF w.calls[c].kind = "search" THEN Throw(Raise(w, c, message), c, message)
  ELSE CallGenerate(Raise(w, c, message), c)

\* what searchSimilar throws reaches its caller:
\* searchDocumentsWithRetryWithFilter or the direct caller
SearchThrow(w, c, message) ==
  IF w.calls[c].kind = "search" THEN Throw(Raise(w, c, message), c, message)
  ELSE StageCatch(Raise(w, c, message), c, message, "searchStageWait")

\* a variant of the lines after the search that goes on to generation even
\* when nothing was found
SearchReturnAlwaysGenerate(w, c, results, time) ==
  IF w.calls[c].kind = "search"
  THEN Return(w, c, [ sources |-> results ])
  ELSE CallGenerate([ w EXCEPT !.calls[c].searchResults = results,
                               !.calls[c].found = Len(results),
                               !.calls[c].i = 1, !.calls[c].lastError = << >> ], c)
\* a variant of the lines after the search that counts the query whose search
\* found nothing
SearchReturnCounted(w, c, results, time) ==
  IF w.calls[c].kind = "search"
  THEN Return(w, c, [ sources |-> results ])
  ELSE IF Len(results) = 0
       THEN Return([ w EXCEPT !.calls[c].searchResults = results,
                              !.calls[c].found = 0,
                              !.met.totalQueries = @ + 1 ],
                   c, [ query |-> w.calls[c].query,
                        answer |-> NoInfoAnswer, sources |-> << >>,
                        confidence |-> ZeroConfidence,
                        processingTime |-> time - w.calls[c].startTime ])
       ELSE CallGenerate([ w EXCEPT !.calls[c].searchResults = results,
                                    !.calls[c].found = Len(results),
                                    !.calls[c].i = 1, !.calls[c].lastError = << >> ], c)
\* lines 92-110 of processQuery, after the search has returned
SearchReturn(w, c, results, time) ==
  IF w.calls[c].kind = "search"
  THEN Return(w, c, [ sources |-> results ])
  ELSE IF Len(results) = 0
       THEN Return([ w EXCEPT !.calls[c].searchResults = results,
                              !.calls[c].found = 0 ],
                   c, [ query |-> w.calls[c].query,
                        answer |-> NoInfoAnswer, sources |-> << >>,
                        confidence |-> ZeroConfidence,
                        processingTime |-> time - w.calls[c].startTime ])
       ELSE CallGenerate([ w EXCEPT !.calls[c].searchResults = results,
                                    !.calls[c].found = Len(results),
                                    !.calls[c].i = 1, !.calls[c].lastError = << >> ], c)

\* searchSimilar up to its await of collection.query (lines 114-138)
CallSearch(w, c, time) ==
  LET entered == [ w EXCEPT !.calls[c].stages =
                      IF @ # << >> /\ @[Len(@)] = "retrieving"
                      THEN @ ELSE Append(@, "retrieving") ]
  IN IF w.calls[c].queryEmbedding = NoEmbedding
     THEN SearchThrow(entered, c, MsgBadQueryEmbedding)
     ELSE [ entered EXCEPT !.calls[c].pc = "searchReq",
                           !.calls[c].sent.retrieval =
                              IF w.log.observe THEN @ + 1 ELSE @,
                           !.calls[c].where = WhereClause(time, w.calls[c].filter) ]

\* lines 83-90 of processQuery, after the embedding has been obtained
EmbeddingReturn(w, c, embedding, time) ==
  IF w.calls[c].kind = "embed"
  THEN Return(w, c, [ embedding |-> embedding ])
  ELSE IF embedding = NoEmbedding
       THEN ProcessQueryCatch(Raise(w, c, MsgNoEmbedding), c, MsgNoEmbedding)
       ELSE LET documentId == w.calls[c].documentId
                whereFilter == IF documentId # None
                               THEN [ documentId |-> Eq(documentId) ] ELSE NoFilter
            IN CallSearch([ w EXCEPT !.calls[c].queryEmbedding = embedding,
                                     !.calls[c].filter = whereFilter,
                                     !.calls[c].i = 1,
                                     !.calls[c].lastError = << >> ], c, time)

\* what generateEmbedding throws reaches its caller: generateEmbeddingWithRetry
\* or the direct caller
EmbeddingThrow(w, c, message) ==
  IF w.calls[c].kind = "embed" THEN Throw(Raise(w, c, message), c, message)
  ELSE StageCatch(Raise(w, c, message), c, message, "embedStageWait")

\* featureExtraction is requested (line 57)
RequestEmbedding(w, c) ==
  LET cleaned == cleanText(w.calls[c].query)
  IN [ w EXCEPT !.calls[c].pc = "embedReq",
                !.calls[c].embAttempt = @ + 1,
                !.calls[c].sent.embedding = IF w.log.observe THEN @ + 1 ELSE @,
                !.log.requests =
                   IF w.log.observe
                   THEN [ k \in DOMAIN @ \cup { cleaned } |->
                            Count(@, k) + (IF k = cleaned THEN 1 ELSE 0) ]
                   ELSE @ ]

\* a variant of generateEmbedding that does not look into the cache
CallGenerateEmbeddingNoCache(w, c, time) ==
  LET text == w.calls[c].query
      cleanedText == cleanText(text)
      called == [ w EXCEPT !.calls[c].embAttempt = 0,
                           !.calls[c].cachedBefore =
                              /\ cleanedText \in w.log.fetched
                              /\ MapHas(w.cache, generateCacheKey(cleanedText)),
                           !.calls[c].stages =
                              IF @ # << >> THEN @ ELSE << "embedding" >> ]
  IN IF text = << >> THEN EmbeddingThrow(called, c, MsgNoText)
     ELSE IF Len(cleanedText) = 0 THEN EmbeddingThrow(called, c, MsgEmptyText)
     ELSE RequestEmbedding([ called EXCEPT !.calls[c].input = truncateText(cleanedText) ], c)
\* generateEmbedding up to its first await of the provider (lines 22-57)
CallGenerateEmbedding(w, c, time) ==
  LET text == w.calls[c].query
      cleanedText == cleanText(text)
      cacheKey == generateCacheKey(cleanedText)
      called == [ w EXCEPT !.calls[c].embAttempt = 0,
                           !.calls[c].cachedBefore =
                              /\ cleanedText \in w.log.fetched
                              /\ MapHas(w.cache, generateCacheKey(cleanedText)),
                           !.calls[c].stages =
                              IF @ # << >> THEN @ ELSE << "embedding" >> ]
  IN IF text = << >> THEN EmbeddingThrow(called, c, MsgNoText)
     ELSE IF Len(cleanedText) = 0 THEN EmbeddingThrow(called, c, MsgEmptyText)
     ELSE IF MapHas(w.cache, cacheKey)
          THEN EmbeddingReturn(called, c, MapGet(w.cache, cacheKey), time)
          ELSE RequestEmbedding([ called EXCEPT
                                    !.calls[c].input = truncateText(cleanedText) ], c)

\* lines 63-81 of processQuery: one attempt, up to its first await
EnterAttempt(w, c, time) ==
  LET counted == [ w EXCEPT !.calls[c].attempt = @ + 1, !.calls[c].i = 1,
                            !.calls[c].lastError = << >>,
                            !.calls[c].searchResults = << >>,
                            !.calls[c].stages = << >>, !.calls[c].found = 0 - 1 ]
  IN IF w.calls[c].query = << >>
     THEN ProcessQueryCatch(Raise(counted, c, MsgNoQuery), c, MsgNoQuery)
     ELSE CallGenerateEmbedding(counted, c, time)

\* line 63 of processQuery: while (attempt < maxRetries); a call that leaves
\* the loop returns undefined
LoopTest(w, c, time) ==
  IF w.calls[c].attempt < maxRetries THEN EnterAttempt(w, c, time)
  ELSE Return(w, c, NoResult)

\* lines 75-93 of generateEmbedding, after the provider's response
EmbeddingResponse(w, c, embedding, time) ==
  IF embedding = NoEmbedding THEN EmbeddingThrow(w, c, MsgInvalidEmbedding)
  ELSE LET cacheKey == generateCacheKey(cleanText(w.calls[c].query))
       IN EmbeddingReturn(
            [ w EXCEPT !.cache = CacheStore(@, cacheKey, embedding),
                       !.log.fetched = @ \cup { cleanText(w.calls[c].query) } ],
            c, embedding, time)

\* a variant of generateEmbedding's catch that retries whatever the message is
EmbeddingFailureAlways(w, c, message) ==
  IF w.calls[c].embAttempt < maxRetries
  THEN [ Raise(w, c, message) EXCEPT !.calls[c].pc = "embedRetryWait" ]
  ELSE EmbeddingThrow(w, c, message)
\* lines 63-72 of generateEmbedding: the provider's request failed
EmbeddingFailure(w, c, message) ==
  IF w.calls[c].embAttempt < maxRetries /\ embeddingRetryable(message)
  THEN [ Raise(w, c, message) EXCEPT !.calls[c].pc = "embedRetryWait" ]
  ELSE EmbeddingThrow(w, c, message)

(***************************************************************************)
(* Actions.                                                                *)
(***************************************************************************)
World ==
  [ calls |-> calls, cache |-> embeddingCache, log |-> providerLog,
    hist |-> queryHistory, met |-> performanceMetrics, nid |-> nextId,
    settled |-> settled ]

Commit(w) ==
  /\ calls' = w.calls
  /\ embeddingCache' = w.cache
  /\ providerLog' = w.log
  /\ queryHistory' = w.hist
  /\ performanceMetrics' = w.met
  /\ nextId' = w.nid
  /\ settled' = w.settled

\* a provider failure is taken from the failures the environment may inject
Fault ==
  /\ faultsLeft # 0
  /\ faultsLeft' = IF faultsLeft = Unlimited THEN Unlimited ELSE faultsLeft - 1

NewCall(kind, via, query, maxResults, supplied, argument) ==
  [ IdleCall EXCEPT !.kind = kind, !.via = via, !.query = query,
                    !.maxResults = maxResults, !.supplied = supplied,
                    !.documentId = ExtractDocumentId(argument), !.startTime = now ]

\* an upstream caller invokes
\*   ragService.processQuery(query, maxResults, includeMetadata, argument)
ProcessQuery(c, query, maxResults, argument) ==
  /\ calls[c].pc = "idle"
  /\ Commit(LoopTest(
        [ World EXCEPT !.calls[c] = NewCall("query", "direct", query, maxResults,
                                            argument.documentId, argument) ],
        c, now))
  /\ UNCHANGED << batch, store, textChunker, splitCall, now, historyReply, faultsLeft, request,
                  embedBatch, retention >>

\* controller queryRAG on a validated POST /rag/query body (lines 4-33):
\*   ragService.processQuery(query, maxResults, includeMetadata)
queryRAG(c, body) ==
  /\ calls[c].pc = "idle"
  /\ Commit(LoopTest(
        [ World EXCEPT !.calls[c] = NewCall("query", "http", body.query, body.maxResults,
                                            body.documentId, NoArgument) ],
        c, now))
  /\ UNCHANGED << batch, store, textChunker, splitCall, now, historyReply, faultsLeft, request,
                  embedBatch, retention >>

\* a caller invokes embeddingService.generateEmbedding(text)
GenerateEmbedding(c, text) ==
  /\ calls[c].pc = "idle"
  /\ Commit(CallGenerateEmbedding(
        [ World EXCEPT !.calls[c] = NewCall("embed", "direct", text, 5, None, NoArgument) ],
        c, now))
  /\ UNCHANGED << batch, store, textChunker, splitCall, now, historyReply, faultsLeft, request,
                  embedBatch, retention >>

\* a caller invokes vectorService.searchSimilar(queryEmbedding, maxResults, filter)
SearchSimilar(c, queryEmbedding, maxResults, filter) ==
  /\ calls[c].pc = "idle"
  /\ Commit(CallSearch(
        [ World EXCEPT !.calls[c] =
            [ NewCall("search", "direct", << >>, maxResults, None, NoArgument)
                EXCEPT !.queryEmbedding = queryEmbedding, !.filter = filter ] ],
        c, now))
  /\ UNCHANGED << batch, store, textChunker, splitCall, now, historyReply, faultsLeft, request,
                  embedBatch, retention >>

\* the embedding provider answers the request of call c with a response
EmbeddingProviderResponds(c, embedding) ==
  /\ calls[c].pc = "embedReq"
  /\ Commit(EmbeddingResponse(World, c, embedding, now))
  /\ UNCHANGED << batch, store, textChunker, splitCall, now, historyReply, faultsLeft, request,
                  embedBatch, retention >>

\* the embedding provider fails the request of call c
EmbeddingProviderFails(c, message) ==
  /\ calls[c].pc = "embedReq"
  /\ Fault
  /\ Commit(EmbeddingFailure(World, c, message))
  /\ UNCHANGED << batch, store, textChunker, splitCall, now, historyReply, request,
                  embedBatch, retention >>

\* the backoff inside generateEmbedding ends (line 68): the next request
EmbeddingRetryTimer(c) ==
  /\ calls[c].pc = "embedRetryWait"
  /\ Commit(RequestEmbedding(World, c))
  /\ UNCHANGED << batch, store, textChunker, splitCall, now, historyReply, faultsLeft, request,
                  embedBatch, retention >>

\* the backoff of generateEmbeddingWithRetry ends (line 179): the next call
EmbeddingStageTimer(c) ==
  /\ calls[c].pc = "embedStageWait"
  /\ Commit(CallGenerateEmbedding([ World EXCEPT !.calls[c].i = @ + 1 ], c, now))
  /\ UNCHANGED << batch, store, textChunker, splitCall, now, historyReply, faultsLeft, request,
                  embedBatch, retention >>

\* the store answers collection.query of call c (lines 138-163)
StoreResponds(c, rows) ==
  /\ calls[c].pc = "searchReq"
  /\ Commit(SearchReturn(World, c, ToSearchResults(rows), now))
  /\ UNCHANGED << batch, store, textChunker, splitCall, now, historyReply, faultsLeft, request,
                  embedBatch, retention >>

\* the store fails collection.query of call c
StoreFails(c, message) ==
  /\ calls[c].pc = "searchReq"
  /\ Fault
  /\ Commit(SearchThrow(World, c, message))
  /\ UNCHANGED << batch, store, textChunker, splitCall, now, historyReply, request,
                  embedBatch, retention >>

\* the backoff of searchDocumentsWithRetryWithFilter ends (line 196)
SearchStageTimer(c) ==
  /\ calls[c].pc = "searchStageWait"
  /\ Commit(CallSearch([ World EXCEPT !.calls[c].i = @ + 1 ], c, now))
  /\ UNCHANGED << batch, store, textChunker, splitCall, now, historyReply, faultsLeft, request,
                  embedBatch, retention >>

\* the generation provider answers the request of call c
GenerationProviderResponds(c, response) ==
  /\ calls[c].pc = "genReq"
  /\ Commit(GenerateReturn(World, c, response, now))
  /\ UNCHANGED << batch, store, textChunker, splitCall, now, historyReply, faultsLeft, request,
                  embedBatch, retention >>

\* the generation provider fails the request of call c
GenerationProviderFails(c, message) ==
  /\ calls[c].pc = "genReq"
  /\ Fault
  /\ Commit(StageCatch(Raise(World, c, message), c, message, "genStageWait"))
  /\ UNCHANGED << batch, store, textChunker, splitCall, now, historyReply, request,
                  embedBatch, retention >>

\* the backoff of generateResponseWithRetry ends (line 213)
GenerationStageTimer(c) ==
  /\ calls[c].pc = "genStageWait"
  /\ Commit(CallGenerate([ World EXCEPT !.calls[c].i = @ + 1 ], c))
  /\ UNCHANGED << batch, store, textChunker, splitCall, now, historyReply, faultsLeft, request,
                  embedBatch, retention >>

\* the backoff of processQuery ends (lines 155-156): continue, that is the loop
\* test of line 63, then the next attempt or the end of the function
BackoffTimer(c) ==
  /\ calls[c].pc = "backoff"
  /\ Commit(LoopTest(World, c, now))
  /\ UNCHANGED << batch, store, textChunker, splitCall, now, historyReply, faultsLeft, request,
                  embedBatch, retention >>

\* time passes
Tick ==
  /\ now < MaxNow
  /\ now' = now + 1
  /\ UNCHANGED << calls, batch, embeddingCache, providerLog, store, textChunker, splitCall, queryHistory,
                  performanceMetrics, nextId, settled, historyReply, faultsLeft, request,
                  embedBatch, retention >>

(***************************************************************************)
(* RAGService.batchProcessQueries behind controller batchQueryRAG.         *)
(* The call for queries[k] has call id k.                                  *)
(***************************************************************************)
batchSize == 3

IdleBatch ==
  [ pc |-> "idle", queries |-> << >>, maxResults |-> 5, i |-> 0, results |-> << >>,
    response |-> [ status |-> 0 ] ]

HasFailed(r) == "status" \in DOMAIN r /\ r.status = "failed"

\* batch.map(query => this.processQuery(query, maxResults)): the calls
\* first .. last start one after the other, each up to its first await
RECURSIVE StartCalls(_, _, _, _, _, _)
StartCalls(w, first, last, queries, maxResults, time) ==
  IF first > last THEN w
  ELSE StartCalls(
         LoopTest([ w EXCEPT !.calls[first] =
                          NewCall("query", "batch", queries[first], maxResults,
                                  None, NoArgument) ],
                      first, time),
         first + 1, last, queries, maxResults, time)

LastOfSubBatch(i, queries) == Min(i + batchSize, Len(queries))

\* lines 358-372: what one settled promise adds to the results
Outcome(call, query) ==
  IF call.pc = "returned" THEN call.result
  ELSE [ query |-> query, status |-> "failed", error |-> call.error ]

\* the sub-batch in the order its promises settled
SettledOrder(first, last) ==
  SelectSeq(settled, LAMBDA c : first <= c /\ c <= last)

\* a variant that collects the outcomes in the order the promises settled
SubBatchOutcomesAsSettled(first, last, queries) ==
  [ k \in 1 .. (last - first + 1) |->
      Outcome(calls[SettledOrder(first, last)[k]], queries[SettledOrder(first, last)[k]]) ]
\* Promise.allSettled and the forEach of lines 354-372: the outcomes of the
\* calls first .. last, in the order of the sub-batch
SubBatchOutcomes(first, last, queries) ==
  [ k \in 1 .. (last - first + 1) |-> Outcome(calls[first + k - 1], queries[first + k - 1]) ]

\* controller batchQueryRAG (lines 35-60) and batchProcessQueries up to its
\* first await (lines 339-356)
batchQueryRAG(queries, maxResults) ==
  /\ batch.pc = "idle"
  /\ IF Len(queries) = 0
     THEN /\ batch' = [ batch EXCEPT !.pc = "rejected", !.response = [ status |-> 400 ] ]
          /\ UNCHANGED << calls, embeddingCache, providerLog, queryHistory,
                          performanceMetrics, nextId, settled >>
     ELSE /\ batch' = [ batch EXCEPT !.pc = "running", !.queries = queries,
                                     !.maxResults = maxResults ]
          /\ Commit(StartCalls(World, 1, LastOfSubBatch(0, queries), queries,
                               maxResults, now))
  /\ UNCHANGED << store, textChunker, splitCall, now, historyReply, faultsLeft, request,
                  embedBatch, retention >>

\* a variant with Promise.all in place of Promise.allSettled: the batch
\* rejects as soon as one promise of the sub-batch has rejected
BatchSubBatchFailFast ==
  /\ batch.pc = "running"
  /\ LET first == batch.i + 1
         last == LastOfSubBatch(batch.i, batch.queries)
         results == batch.results \o SubBatchOutcomes(first, last, batch.queries)
     IN IF \E c \in first .. last : calls[c].pc = "thrown"
        THEN batch' = [ batch EXCEPT !.pc = "thrown", !.response = [ status |-> 500 ] ]
        ELSE /\ \A c \in first .. last : Settled(calls[c])
             /\ IF batch.i + batchSize < Len(batch.queries)
                THEN batch' = [ batch EXCEPT !.pc = "pause", !.results = results ]
                ELSE batch' = [ batch EXCEPT
                       !.pc = "done", !.results = results,
                       !.response =
                          [ status |-> 200,
                            total |-> Len(batch.queries),
                            successful |->
                               Cardinality({ k \in DOMAIN results : ~ HasFailed(results[k]) }),
                            failed |->
                               Cardinality({ k \in DOMAIN results : HasFailed(results[k]) }) ] ]
  /\ UNCHANGED << calls, embeddingCache, providerLog, store, textChunker, splitCall, queryHistory,
                  performanceMetrics, now, nextId, settled, historyReply, faultsLeft, request,
                  embedBatch, retention >>
\* a variant with Promise.race in place of Promise.allSettled: the loop goes
\* on as soon as one promise of the sub-batch has settled
BatchSubBatchRace ==
  /\ batch.pc = "running"
  /\ LET first == batch.i + 1
         last == LastOfSubBatch(batch.i, batch.queries)
         results == batch.results \o SubBatchOutcomes(first, last, batch.queries)
     IN /\ \E c \in first .. last : Settled(calls[c])
        /\ IF batch.i + batchSize < Len(batch.queries)
           THEN batch' = [ batch EXCEPT !.pc = "pause", !.results = results ]
           ELSE batch' = [ batch EXCEPT !.pc = "done", !.results = results,
                                       !.response = [ status |-> 200 ] ]
  /\ UNCHANGED << calls, embeddingCache, providerLog, store, textChunker, splitCall, queryHistory,
                  performanceMetrics, now, nextId, settled, historyReply, faultsLeft, request,
                  embedBatch, retention >>
\* every promise of the sub-batch has settled: lines 358-388, and lines 62-72
\* of the controller when the last sub-batch is done
BatchSubBatchSettled ==
  /\ batch.pc = "running"
  /\ LET first == batch.i + 1
         last == LastOfSubBatch(batch.i, batch.queries)
         results == batch.results \o SubBatchOutcomes(first, last, batch.queries)
     IN /\ \A c \in first .. last : Settled(calls[c])
        /\ IF batch.i + batchSize < Len(batch.queries)
           THEN batch' = [ batch EXCEPT !.pc = "pause", !.results = results ]
           ELSE batch' = [ batch EXCEPT
                  !.pc = "done", !.results = results,
                  !.response =
                     [ status |-> 200,
                       total |-> Len(batch.queries),
                       successful |->
                          Cardinality({ k \in DOMAIN results : ~ HasFailed(results[k]) }),
                       failed |->
                          Cardinality({ k \in DOMAIN results : HasFailed(results[k]) }) ] ]
  /\ UNCHANGED << calls, embeddingCache, providerLog, store, textChunker, splitCall, queryHistory,
                  performanceMetrics, now, nextId, settled, historyReply, faultsLeft, request,
                  embedBatch, retention >>

\* the pause between sub-batches ends (line 375): the next sub-batch starts
BatchPauseTimer ==
  /\ batch.pc = "pause"
  /\ batch' = [ batch EXCEPT !.pc = "running", !.i = @ + batchSize ]
  /\ Commit(StartCalls(World, batch.i + batchSize + 1,
                       LastOfSubBatch(batch.i + batchSize, batch.queries),
                       batch.queries, batch.maxResults, now))
  /\ UNCHANGED << store, textChunker, splitCall, now, historyReply, faultsLeft, request,
                  embedBatch, retention >>

(***************************************************************************)
(* RAGService.getQueryHistory and clearHistory.                            *)
(***************************************************************************)
\* Array.prototype.sort((a, b) => new Date(b.timestamp) - new Date(a.timestamp)):
\* a stable sort, newest first
RECURSIVE NewestFirst(_, _)
NewestFirst(entries, stamps) ==
  IF stamps = {} THEN << >>
  ELSE LET newest == CHOOSE t \in stamps : \A u \in stamps : u <= t
       IN SelectSeq(entries, LAMBDA e : e.timestamp = newest)
            \o NewestFirst(entries, stamps \ { newest })

SortNewestFirst(entries) ==
  NewestFirst(entries, { entries[k].timestamp : k \in DOMAIN entries })

MapValues(map) == [ k \in DOMAIN map |-> map[k].value ]

\* a variant of getQueryHistory that skips cleanupExpiredHistory
getQueryHistoryNoCleanup(limit) ==
  /\ historyReply' = [ queries |-> substring(SortNewestFirst(MapValues(queryHistory)), limit),
                       total |-> Len(queryHistory), limit |-> limit ]
  /\ UNCHANGED << calls, batch, embeddingCache, providerLog, store, textChunker, splitCall,
                  queryHistory, performanceMetrics, now, nextId, settled, faultsLeft,
                  request, embedBatch, retention >>

\* RAGService.getQueryHistory(limit)
getQueryHistory(limit) ==
  LET kept == cleanupExpiredHistory(queryHistory, now)
  IN /\ queryHistory' = kept
     /\ historyReply' = [ queries |-> substring(SortNewestFirst(MapValues(kept)), limit),
                          total |-> Len(kept), limit |-> limit ]
     /\ UNCHANGED << calls, batch, embeddingCache, providerLog, store, textChunker, splitCall,
                     performanceMetrics, now, nextId, settled, faultsLeft, request,
                  embedBatch, retention >>

\* a variant of clearHistory that keeps the token count
clearHistoryKeepTokens ==
  /\ queryHistory' = << >>
  /\ performanceMetrics' =
        [ InitialMetrics EXCEPT !.totalTokensUsed = performanceMetrics.totalTokensUsed ]
  /\ UNCHANGED << calls, batch, embeddingCache, providerLog, store, textChunker, splitCall, now, nextId,
                  settled, historyReply, faultsLeft, request,
                  embedBatch, retention >>
\* RAGService.clearHistory
clearHistory ==
  /\ queryHistory' = << >>
  /\ performanceMetrics' = InitialMetrics
  /\ UNCHANGED << calls, batch, embeddingCache, providerLog, store, textChunker, splitCall, now, nextId,
                  settled, historyReply, faultsLeft, request,
                  embedBatch, retention >>

(***************************************************************************)
(* TextChunker (utils/textChunker.js).                                     *)
(***************************************************************************)
defaultMaxChunkSize == 1000
defaultOverlapSize == 200

\* the default separators, in the order findBestSplitPoint tries them
defaultSeparators ==
  << << "\n", "\n" >>, << "\n" >>, << ".", " " >>, << "!", " " >>, << "?", " " >>,
     << ";", " " >>, << ":", " " >>, << ",", " " >>, << " " >> >>

\* options without a field: the field reads as undefined, written 0 (both falsy)
NoOptions == [ maxChunkSize |-> 0, overlapSize |-> 0 ]

\* TextChunker constructor: options.x || default
TextChunker(options) ==
  [ maxChunkSize |-> IF options.maxChunkSize # 0 THEN options.maxChunkSize
                     ELSE defaultMaxChunkSize,
    overlapSize  |-> IF options.overlapSize # 0 THEN options.overlapSize
                     ELSE defaultOverlapSize,
    separators   |-> defaultSeparators ]

\* a JavaScript value handed to splitText
StringValue(chars) == [ type |-> "string", chars |-> chars ]
UndefinedValue == [ type |-> "undefined", chars |-> << >> ]
NullValue == [ type |-> "object", chars |-> << >> ]
NumberValue == [ type |-> "number", chars |-> << >> ]

\* !text || typeof text !== 'string'
IsNoText(text) == text.type # "string" \/ text.chars = << >>

\* the whitespace run at the start of str
RECURSIVE LeadingWhitespace(_)
LeadingWhitespace(str) ==
  IF str # << >> /\ IsSpace(Head(str))
  THEN << Head(str) >> \o LeadingWhitespace(Tail(str)) ELSE << >>

\* text.replace(/\n\s*\n/g, '\n\n'): a line break, whitespace up to the last
\* line break of the run, becomes two line breaks
RECURSIVE ReplaceBlankLines(_)
ReplaceBlankLines(str) ==
  IF str = << >> THEN << >>
  ELSE LET run == LeadingWhitespace(Tail(str))
           breaks == { j \in 1 .. Len(run) : run[j] = "\n" }
           last == CHOOSE j \in breaks : \A k \in breaks : k <= j
       IN IF Head(str) = "\n" /\ breaks # {}
          THEN << "\n", "\n" >> \o
               ReplaceBlankLines(SubSeq(str, last + 2, Len(str)))
          ELSE << Head(str) >> \o ReplaceBlankLines(Tail(str))

\* TextChunker.cleanText
chunkerCleanText(text) == trim(ReplaceBlankLines(CollapseWhitespace(text)))

\* String.prototype.lastIndexOf, counted from 0; -1 when there is none
lastIndexOf(str, separator) ==
  LET hits == { i \in 0 .. Len(str) - Len(separator) :
                   SubSeq(str, i + 1, i + Len(separator)) = separator }
  IN IF hits = {} THEN 0 - 1 ELSE CHOOSE i \in hits : \A k \in hits : k <= i

\* TextChunker.findBestSplitPoint: the first separator of the list whose last
\* occurrence leaves more than overlapSize characters after it
RECURSIVE findBestSplitPoint(_, _, _)
findBestSplitPoint(chunker, chunk, n) ==
  IF n > Len(chunker.separators) THEN trim(chunk)
  ELSE LET separator == chunker.separators[n]
           lastIndex == lastIndexOf(chunk, separator)
       IN IF lastIndex > 0 /\ lastIndex < Len(chunk) - chunker.overlapSize
          THEN trim(SubSeq(chunk, 1, lastIndex + Len(separator)))
          ELSE findBestSplitPoint(chunker, chunk, n + 1)

\* a variant of createOverlap that carries the whole chunk over
createOverlapWhole(chunker, lastChunk) == lastChunk

\* TextChunker.createOverlap
createOverlap(chunker, lastChunk) ==
  LET overlapStart == IF Len(lastChunk) - chunker.overlapSize > 0
                      THEN Len(lastChunk) - chunker.overlapSize ELSE 0
  IN SubSeq(lastChunk, overlapStart + 1, Len(lastChunk))

\* TextChunker.createChunks: the loop from character i (counted from 1) on,
\* then the flush of what is left
RECURSIVE createChunksFrom(_, _, _, _, _)
createChunksFrom(chunker, text, i, chunks, currentChunk) ==
  IF i > Len(text)
  THEN IF trim(currentChunk) # << >> THEN Append(chunks, trim(currentChunk)) ELSE chunks
  ELSE LET grown == Append(currentChunk, text[i])
           chunk == findBestSplitPoint(chunker, grown, 1)
       IN IF Len(grown) >= chunker.maxChunkSize /\ chunk # << >>
          THEN createChunksFrom(chunker, text, i + 1, Append(chunks, chunk),
                                createOverlap(chunker, chunk))
          ELSE createChunksFrom(chunker, text, i + 1, chunks, grown)

createChunks(chunker, text) == createChunksFrom(chunker, text, 1, << >>, << >>)

\* a variant of splitText that returns a short text as it was given
splitTextUncleaned(chunker, text) ==
  IF IsNoText(text) THEN << >>
  ELSE LET cleanedText == chunkerCleanText(text.chars)
       IN IF Len(cleanedText) <= chunker.maxChunkSize THEN << text.chars >>
          ELSE createChunks(chunker, cleanedText)

\* TextChunker.splitText
splitText(chunker, text) ==
  IF IsNoText(text) THEN << >>
  ELSE LET cleanedText == chunkerCleanText(text.chars)
       IN IF Len(cleanedText) <= chunker.maxChunkSize THEN << cleanedText >>
          ELSE createChunks(chunker, cleanedText)

NoSplit == [ pc |-> "idle", text |-> UndefinedValue, chunks |-> << >> ]

\* a call textChunker.splitText(text), from its start to its return
SplitText ==
  /\ splitCall.pc = "called"
  /\ splitCall' = [ splitCall EXCEPT !.pc = "returned",
                                     !.chunks = splitText(textChunker, splitCall.text) ]
  /\ UNCHANGED << calls, batch, embeddingCache, providerLog, store, queryHistory,
                  performanceMetrics, now, nextId, settled, historyReply, faultsLeft,
                  textChunker, request,
                  embedBatch, retention >>

(***************************************************************************)
(* Inputs and initial states.                                              *)
(***************************************************************************)
TextA == << "a" >>
TextASpaced == << " ", "a", " " >>
TextB == << "b" >>
TextBlank == << " " >>
TextEmpty == << >>

\* fragments ingested earlier: one of d1 already expired at time 0, one of d1
\* and one of d2 still live
FragmentExpired == Fragment("d1-chunk-0", "d1", 0)
FragmentD1 == Fragment("d1-chunk-1", "d1", 1)
FragmentD2 == Fragment("d2-chunk-0", "d2", 9)
FragmentD2b == Fragment("d2-chunk-1", "d2", 8)

NoReply == [ queries |-> << >>, total |-> 0, limit |-> 0 ]

\* no request has been received
NoRequest == [ pc |-> "none" ]

\* generateEmbeddings has not been called
\* the vector service before initialize(): no cleanup timer, no request to the
\* store under way; lastSweep notes how the last sweep ended, escaped whether
\* an error has left the timer's callback, timers how many interval timers
\* have been created (observers)
NoSweep == "none"
IdleRetention ==
  [ collection |-> FALSE, initializing |-> 0, cleanupTimer |-> FALSE, timers |-> 0,
    deleting |-> {}, adding |-> {}, documents |-> 0,
    lastSweep |-> NoSweep, escaped |-> FALSE, metadatas |-> << >> ]

\* the vector service after initialize(): the collection is set and the one
\* cleanup timer runs
InitializedRetention ==
  [ IdleRetention EXCEPT !.collection = TRUE, !.cleanupTimer = TRUE, !.timers = 1 ]

IdleEmbedBatch ==
  [ pc |-> "idle", texts |-> << >>, i |-> 0, results |-> << >>, error |-> << >> ]

InitServices(slots, fragments, faults, observe) ==
  /\ calls = [ c \in 1 .. slots |-> IdleCall ]
  /\ batch = IdleBatch
  /\ embeddingCache = << >>
  /\ providerLog = [ observe |-> observe, requests |-> [ k \in {} |-> 0 ], fetched |-> {} ]
  /\ store = fragments
  /\ queryHistory = << >>
  /\ performanceMetrics = InitialMetrics
  /\ now = 0
  /\ nextId = 1
  /\ settled = << >>
  /\ historyReply = NoReply
  /\ faultsLeft = faults

InitState(slots, fragments, faults, observe) ==
  /\ InitServices(slots, fragments, faults, observe)
  /\ textChunker = TextChunker(NoOptions)
  /\ splitCall = NoSplit
  /\ request = NoRequest
  /\ embedBatch = IdleEmbedBatch
  /\ retention = IdleRetention

(***************************************************************************)
(* SpecQuery: processQuery calls through the controller and from upstream  *)
(* callers, with every provider outcome.                                   *)
(***************************************************************************)
QueryInputs == { TextA, TextBlank, TextEmpty }
ArgumentInputs == { NoArgument, StringArgument("d1"), ObjectArgument("d1"),
                    ObjectArgument("d3") }
BodyInputs == [ query : { TextA }, maxResults : { 5 }, documentId : { None, "d1" } ]

InitQuery ==
  \E fragments \in { { FragmentExpired }, { FragmentExpired, FragmentD1, FragmentD2 } } :
     InitState(1, fragments, Unlimited, FALSE)

NextQuery ==
  \E c \in DOMAIN calls :
     \/ \E query \in QueryInputs, argument \in ArgumentInputs :
           ProcessQuery(c, query, 5, argument)
     \/ \E body \in BodyInputs : queryRAG(c, body)
     \/ EmbeddingProviderResponds(c, ProviderEmbedding(calls[c].input))
     \/ EmbeddingProviderResponds(c, NoEmbedding)
     \/ \E message \in ProviderErrors : EmbeddingProviderFails(c, message)
     \/ EmbeddingRetryTimer(c)
     \/ EmbeddingStageTimer(c)
     \/ \E rows \in StoreAnswers(store, calls[c].where, calls[c].maxResults, DistanceChoices) :
           StoreResponds(c, rows)
     \/ \E message \in ProviderErrors : StoreFails(c, message)
     \/ SearchStageTimer(c)
     \/ \E response \in GenerationResponses : GenerationProviderResponds(c, response)
     \/ \E message \in ProviderErrors : GenerationProviderFails(c, message)
     \/ GenerationStageTimer(c)
     \/ BackoffTimer(c)

SpecQuery == InitQuery /\ [][NextQuery]_vars

(***************************************************************************)
(* Claims checked under SpecQuery.                                         *)
(***************************************************************************)
QueryCalls == { c \in DOMAIN calls : calls[c].kind = "query" /\ calls[c].pc # "idle" }

AtLeastFifth(confidence) == 10 * confidence.num >= 2 * confidence.den
AtMostOne(confidence) == confidence.num <= confidence.den

\* C3 (as claimed): a query given a documentId, as the fourth argument (a
\* string) or in the POST /rag/query body, is searched with a filter on that
\* documentId, and every source of its result belongs to that document.
C3_ScopedWhenSupplied ==
  \A c \in QueryCalls :
     calls[c].supplied # None =>
        /\ calls[c].pc = "searchReq" =>
              /\ "documentId" \in DOMAIN calls[c].where
              /\ calls[c].where.documentId = Eq(calls[c].supplied)
        /\ calls[c].pc = "returned" =>
              \A k \in DOMAIN calls[c].result.sources :
                 calls[c].result.sources[k].metadata.documentId = calls[c].supplied

\* C4: a processQuery call makes at most 3 attempts and settles with a result
\* or an error, never with undefined; an attempt after the first starts only
\* from the backoff that follows a retryable failure, and every attempt
\* starts with the embedding stage.
C4_AttemptsState ==
  \A c \in QueryCalls :
     /\ calls[c].attempt \in 1 .. maxRetries
     /\ calls[c].pc = "returned" => calls[c].result # NoResult
     /\ calls[c].pc = "thrown" => calls[c].error # << >>
     /\ calls[c].stages \in { << >>, << "embedding" >>, << "embedding", "retrieving" >>,
                              << "embedding", "retrieving", "synthesizing" >> }

C4_AttemptsStep ==
  \A c \in DOMAIN calls :
     (calls[c].kind = "query" /\ calls'[c].attempt # calls[c].attempt) =>
        /\ calls'[c].attempt = calls[c].attempt + 1
        /\ calls[c].attempt >= 1 =>
              calls[c].pc = "backoff" /\ isRetryableError(calls[c].lastError)
        /\ calls'[c].query # << >> =>
              calls'[c].stages # << >> /\ Head(calls'[c].stages) = "embedding"

C4_BoundedAttempts == [] C4_AttemptsState /\ [][C4_AttemptsStep]_vars

C4_Witness ==
  \E c \in QueryCalls :
     calls[c].attempt = maxRetries /\ calls[c].pc = "returned"
       /\ Len(calls[c].result.sources) > 0

\* C5: processQuery throws exactly when an attempt fails with an error that is
\* not retryable or when the 3rd attempt fails: a failed attempt is followed
\* by a backoff only if its error is retryable and fewer than 3 attempts were
\* made; the error thrown is the last error a stage raised, and nothing
\* follows the throw.
C5_ThrowState ==
  \A c \in QueryCalls :
     /\ calls[c].pc = "thrown" =>
           /\ calls[c].error = calls[c].raised
           /\ ~ isRetryableError(calls[c].error) \/ calls[c].attempt = maxRetries
     /\ calls[c].pc = "backoff" =>
           /\ calls[c].lastError = calls[c].raised
           /\ isRetryableError(calls[c].lastError)
           /\ calls[c].attempt < maxRetries

C5_ThrowStep ==
  \A c \in DOMAIN calls :
     /\ (calls[c].kind = "query" /\ calls[c].pc = "thrown") => calls'[c] = calls[c]
     /\ (calls[c].kind = "query" /\ calls[c].raised # calls'[c].raised
           /\ InFlight(calls'[c])) =>
           \/ calls'[c].pc \in { "embedRetryWait", "embedStageWait", "searchStageWait",
                                 "genStageWait" }
           \/ calls'[c].pc = "backoff" /\ calls'[c].lastError = calls'[c].raised

C5_ThrowsExactly == [] C5_ThrowState /\ [][C5_ThrowStep]_vars

C5_Witness ==
  \E c \in QueryCalls :
     calls[c].pc = "thrown" /\ calls[c].attempt = maxRetries
       /\ isRetryableError(calls[c].error)

\* C6 (as claimed): the confidence of every result with a non-empty retrieval
\* set lies between 0.2 and 1.0, whatever distances the store reports.
C6_ConfidenceBounds ==
  \A c \in QueryCalls :
     (calls[c].pc = "returned" /\ Len(calls[c].result.sources) > 0) =>
        AtLeastFifth(calls[c].result.confidence) /\ AtMostOne(calls[c].result.confidence)

\* C7: when the search of an attempt returns no fragment, processQuery has
\* returned the canned answer with no sources and confidence 0, without a
\* generation request in that attempt, and the call does nothing more.
C7_EmptyState ==
  \A c \in QueryCalls :
     calls[c].found = 0 =>
        /\ calls[c].pc = "returned"
        /\ calls[c].result.answer = NoInfoAnswer
        /\ calls[c].result.sources = << >>
        /\ calls[c].result.confidence = ZeroConfidence
        /\ calls[c].stages = << "embedding", "retrieving" >>

C7_EmptyStep ==
  \A c \in DOMAIN calls :
     (calls[c].kind = "query" /\ calls[c].found = 0) => calls'[c] = calls[c]

C7_EmptyRetrieval == [] C7_EmptyState /\ [][C7_EmptyStep]_vars

C7_Witness ==
  \E c \in QueryCalls :
     calls[c].found = 0 /\ calls[c].pc = "returned" /\ calls[c].attempt > 1

(***************************************************************************)
(* SpecBatch: one POST /rag/batch-query, its sub-batches of concurrent     *)
(* processQuery calls, and a limited number of provider failures.          *)
(***************************************************************************)
\* the queries of a batch of n: distinct texts side by side, every third blank
BatchQueries(n) ==
  [ k \in 1 .. n |-> IF k % 3 = 1 THEN TextA ELSE IF k % 3 = 2 THEN TextB ELSE TextBlank ]

BatchInputs == { BatchQueries(n) : n \in 0 .. MaxBatchLen }
BatchErrors == { MsgTimeout, MsgUnavailable }
BatchResponses == { Response(AnswerText, << >>, << >>, << >>, 7),
                    Response(<< >>, << >>, << >>, << >>, 0) }

\* as many provider failures as a stage needs to exhaust its retries
InitBatch == InitState(MaxBatchLen, { FragmentExpired, FragmentD2 }, maxRetries, FALSE)

NextBatch ==
  \/ \E queries \in BatchInputs : batchQueryRAG(queries, 5)
  \/ BatchSubBatchSettled
  \/ BatchPauseTimer
  \/ \E c \in DOMAIN calls :
        \/ EmbeddingProviderResponds(c, ProviderEmbedding(calls[c].input))
        \/ \E message \in BatchErrors : EmbeddingProviderFails(c, message)
        \/ EmbeddingRetryTimer(c)
        \/ EmbeddingStageTimer(c)
        \/ \E rows \in StoreAnswers(store, calls[c].where, calls[c].maxResults, { 5 }) :
              StoreResponds(c, rows)
        \/ \E message \in BatchErrors : StoreFails(c, message)
        \/ SearchStageTimer(c)
        \/ \E response \in BatchResponses : GenerationProviderResponds(c, response)
        \/ \E message \in BatchErrors : GenerationProviderFails(c, message)
        \/ GenerationStageTimer(c)
        \/ BackoffTimer(c)

SpecBatch == InitBatch /\ [][NextBatch]_vars

\* C1: the list batchProcessQueries returns has one entry per query, the k-th
\* entry being the outcome of the call for the k-th query, whatever order the
\* calls settled in.
C1_ResultOrder ==
  /\ batch.pc = "pause" => Len(batch.results) = batch.i + batchSize
  /\ batch.pc = "done" => Len(batch.results) = Len(batch.queries)
  /\ \A k \in DOMAIN batch.results :
        batch.results[k] = Outcome(calls[k], batch.queries[k])

C1_Witness ==
  /\ batch.pc = "done"
  /\ Len(batch.queries) = MaxBatchLen
  /\ SettledOrder(1, batchSize) = << 3, 2, 1 >>
  /\ calls[1].pc = "returned" /\ calls[2].pc = "thrown" /\ calls[3].pc = "thrown"
  /\ calls[MaxBatchLen].pc = "returned"

\* C2: a batch never throws because an item failed: every query of every
\* sub-batch is processed, a failed item is reported at its position as
\* {query, status: 'failed', error}, and no other item carries status 'failed'.
C2_BatchIsolation ==
  /\ batch.pc \in { "idle", "rejected", "running", "pause", "done" }
  /\ batch.pc = "done" =>
        /\ batch.response.status = 200
        /\ batch.response.total = Len(batch.queries)
        /\ batch.response.failed =
              Cardinality({ c \in DOMAIN batch.queries : calls[c].pc = "thrown" })
        /\ batch.response.successful =
              Cardinality({ c \in DOMAIN batch.queries : calls[c].pc = "returned" })
        /\ \A k \in DOMAIN batch.queries :
              /\ Settled(calls[k])
              /\ calls[k].pc = "thrown" =>
                    batch.results[k] = [ query |-> batch.queries[k], status |-> "failed",
                                         error |-> calls[k].error ]
              /\ calls[k].pc = "returned" => ~ HasFailed(batch.results[k])

C2_Witness ==
  /\ batch.pc = "done"
  /\ Len(batch.queries) = batchSize + 1
  /\ ~ HasFailed(batch.results[1])
  /\ HasFailed(batch.results[2]) /\ batch.results[2].error = MsgInvalidResponse
  /\ HasFailed(batch.results[3]) /\ batch.results[3].error = MsgEmptyText
  /\ ~ HasFailed(batch.results[batchSize + 1])

(***************************************************************************)
(* SpecEmbed: concurrent generateEmbedding calls, provider requests        *)
(* counted, a limited number of provider failures.                         *)
(***************************************************************************)
EmbedInputs == { TextA, TextASpaced, TextB, TextBlank }

InitEmbed == InitState(MaxEmbedCalls, {}, MaxFaults, TRUE)

NextEmbed ==
  \E c \in DOMAIN calls :
     \/ \E text \in EmbedInputs : GenerateEmbedding(c, text)
     \/ EmbeddingProviderResponds(c, ProviderEmbedding(calls[c].input))
     \/ EmbeddingProviderResponds(c, NoEmbedding)
     \/ \E message \in ProviderErrors : EmbeddingProviderFails(c, message)
     \/ EmbeddingRetryTimer(c)

SpecEmbed == InitEmbed /\ [][NextEmbed]_vars

EmbedCalls == { c \in DOMAIN calls : calls[c].kind = "embed" /\ calls[c].pc # "idle" }

\* C8 (as claimed): two generateEmbedding calls whose texts have the same
\* cleaned form cause at most one provider request in total, overlapping or not.
C8_AtMostOneRequest ==
  \A c, d \in EmbedCalls :
     c # d /\ cleanText(calls[c].query) = cleanText(calls[d].query) =>
        calls[c].embAttempt + calls[d].embAttempt <= 1

\* C8 (amended): a generateEmbedding call that starts when the cache holds the
\* embedding an earlier call fetched for the same cleaned text sends no
\* provider request and returns that embedding at once.
C8_CachedState ==
  \A c \in EmbedCalls :
     calls[c].cachedBefore =>
        /\ calls[c].embAttempt = 0
        /\ calls[c].pc = "returned"
        /\ calls[c].result =
              [ embedding |-> ProviderEmbedding(truncateText(cleanText(calls[c].query))) ]

C8_CachedStep ==
  \A c \in DOMAIN calls :
     calls[c].pc = "idle" /\ calls'[c].cachedBefore =>
        providerLog'.requests = providerLog.requests

C8_CachedNoRequest == [] C8_CachedState /\ [][C8_CachedStep]_vars

C8_Witness ==
  \E c, d \in EmbedCalls :
     /\ c # d
     /\ calls[c].query # calls[d].query
     /\ calls[c].pc = "returned" /\ calls[c].embAttempt = 2
     /\ calls[d].pc = "returned" /\ calls[d].cachedBefore
     /\ providerLog.requests[cleanText(calls[d].query)] = 2

(***************************************************************************)
(* SpecSearch: searchSimilar calls with caller-supplied filters while      *)
(* fragments expire.                                                       *)
(***************************************************************************)
SearchFilters == { NoFilter, [ documentId |-> Eq("d1") ], [ expiresAtMs |-> Eq(0) ] }

InitSearch == InitState(1, { FragmentExpired, FragmentD1, FragmentD2 }, Unlimited, FALSE)

NextSearch ==
  \/ \E c \in DOMAIN calls :
        \/ \E queryEmbedding \in { NoEmbedding, ProviderEmbedding(TextA) },
              maxResults \in { 1, 5 }, filter \in SearchFilters :
                 SearchSimilar(c, queryEmbedding, maxResults, filter)
        \/ \E rows \in StoreAnswers(store, calls[c].where, calls[c].maxResults, { 0, 5 }) :
              StoreResponds(c, rows)
        \/ \E message \in BatchErrors : StoreFails(c, message)
  \/ Tick

SpecSearch == InitSearch /\ [][NextSearch]_vars

SearchCalls == { c \in DOMAIN calls : calls[c].kind = "search" /\ calls[c].pc # "idle" }

\* C9 (as claimed): for every filter of the caller, the where-clause sent to the
\* store selects only fragments that expire after the time of the call and
\* meet the filter, so no fragment that had expired by then is returned.
C9_ExpiryAlwaysApplied ==
  \A c \in SearchCalls :
     /\ calls[c].pc = "searchReq" =>
           \A f \in store :
              Matches(f, calls[c].where) =>
                 /\ f.metadata.expiresAtMs > calls[c].startTime
                 /\ Matches(f, calls[c].filter)
     /\ calls[c].pc = "returned" =>
           \A k \in DOMAIN calls[c].result.sources :
              calls[c].result.sources[k].metadata.expiresAtMs > calls[c].startTime

(***************************************************************************)
(* SpecHistory: successful processQuery calls and getQueryHistory on a     *)
(* history that earlier queries have filled to its capacity, while time    *)
(* passes.                                                                 *)
(***************************************************************************)
PastResult ==
  [ query |-> TextB, answer |-> AnswerText, sources |-> << >>,
    confidence |-> ZeroConfidence, processingTime |-> 0, totalTokensUsed |-> 7,
    attempts |-> 1, scopedDocumentId |-> None ]

\* the history after n earlier saves, the first of them historyTTL before time 0
PastHistory(n) ==
  [ k \in 1 .. n |->
      saveQueryHistory(<< >>, k, TextB, PastResult, 0,
                       IF k = 1 THEN 0 - historyTTL ELSE 0)[1] ]

InitHistory ==
  \E n \in { historyCapacity - 1, historyCapacity } :
     /\ calls = [ c \in 1 .. MaxHistoryCalls |-> IdleCall ]
     /\ batch = IdleBatch
     /\ embeddingCache = << >>
     /\ providerLog = [ observe |-> FALSE, requests |-> [ k \in {} |-> 0 ], fetched |-> {} ]
     /\ store = { FragmentD2 }
     /\ queryHistory = PastHistory(n)
     /\ performanceMetrics = InitialMetrics
     /\ now = 0
     /\ nextId = n + 1
     /\ settled = << >>
     /\ historyReply = NoReply
     /\ faultsLeft = 0
     /\ textChunker = TextChunker(NoOptions)
     /\ splitCall = NoSplit
     /\ request = NoRequest
     /\ embedBatch = IdleEmbedBatch
     /\ retention = IdleRetention

NextHistory ==
  \/ \E c \in DOMAIN calls :
        \/ ProcessQuery(c, TextA, 5, NoArgument)
        \/ EmbeddingProviderResponds(c, ProviderEmbedding(calls[c].input))
        \/ \E rows \in StoreAnswers(store, calls[c].where, calls[c].maxResults, { 5 }) :
              StoreResponds(c, rows)
        \/ GenerationProviderResponds(c, Response(AnswerText, << >>, << >>, << >>, 7))
  \/ getQueryHistory(50)
  \/ Tick

SpecHistory == InitHistory /\ [][NextHistory]_vars

\* C10: the history never holds more than 1000 entries; a save into a history
\* of 1000 evicts exactly the entry inserted first and keeps the new one.
C10_CapState == Len(queryHistory) <= historyCapacity

C10_CapStep ==
  nextId' = nextId + 1 /\ Len(queryHistory) = historyCapacity =>
     /\ Len(queryHistory') = historyCapacity
     /\ SubSeq(queryHistory', 1, historyCapacity - 1) = Tail(queryHistory)
     /\ queryHistory'[historyCapacity].key = nextId
     /\ queryHistory'[historyCapacity].value.query = TextA

C10_HistoryCap == [] C10_CapState /\ [][C10_CapStep]_vars

C10_Witness ==
  /\ Len(queryHistory) = historyCapacity
  /\ queryHistory[1].key = 2
  /\ queryHistory[historyCapacity].key = historyCapacity + 1
  /\ historyReply.total = historyCapacity

(***************************************************************************)
(* SpecCache: generateEmbedding calls on a cache that earlier calls have   *)
(* filled to its capacity.                                                 *)
(***************************************************************************)
\* the k-th text embedded earlier: the three decimal digits of k
PastText(k) ==
  << Digits[(k \div 100) + 1], Digits[((k \div 10) % 10) + 1], Digits[(k % 10) + 1] >>

\* the cache after the first n of these texts have been embedded, in order
PastCache(n) ==
  [ k \in 1 .. n |->
      CacheStore(<< >>, generateCacheKey(cleanText(PastText(k - 1))),
                 ProviderEmbedding(truncateText(cleanText(PastText(k - 1)))))[1] ]

CacheInputs == { TextA, TextASpaced, TextB, PastText(0), PastText(1) }

InitCache ==
  \E n \in { embeddingCacheCapacity - 1, embeddingCacheCapacity } :
     /\ calls = [ c \in 1 .. MaxEmbedCalls |-> IdleCall ]
     /\ batch = IdleBatch
     /\ embeddingCache = PastCache(n)
     /\ providerLog = [ observe |-> FALSE, requests |-> [ k \in {} |-> 0 ], fetched |-> {} ]
     /\ store = {}
     /\ queryHistory = << >>
     /\ performanceMetrics = InitialMetrics
     /\ now = 0
     /\ nextId = 1
     /\ settled = << >>
     /\ historyReply = NoReply
     /\ faultsLeft = 0
     /\ textChunker = TextChunker(NoOptions)
     /\ splitCall = NoSplit
     /\ request = NoRequest
     /\ embedBatch = IdleEmbedBatch
     /\ retention = IdleRetention

NextCache ==
  \E c \in DOMAIN calls :
     \/ \E text \in CacheInputs : GenerateEmbedding(c, text)
     \/ EmbeddingProviderResponds(c, ProviderEmbedding(calls[c].input))
     \/ EmbeddingProviderResponds(c, NoEmbedding)

SpecCache == InitCache /\ [][NextCache]_vars

CacheKeys(cache) == { cache[i].key : i \in DOMAIN cache }

\* C11: the embedding cache never holds more than 1000 entries; an insertion
\* into a full cache evicts the entry inserted earliest and keeps the others
\* in their order, and a call answered from the cache leaves the cache as it is.
C11_CacheState == Len(embeddingCache) <= embeddingCacheCapacity

C11_CacheStep ==
  /\ embeddingCache' # embeddingCache =>
        LET new == embeddingCache'[Len(embeddingCache')]
        IN /\ new.key \notin CacheKeys(embeddingCache)
           /\ IF Len(embeddingCache) = embeddingCacheCapacity
              THEN embeddingCache' = Tail(embeddingCache) \o << new >>
              ELSE embeddingCache' = embeddingCache \o << new >>
  /\ \A c \in DOMAIN calls :
        calls[c].pc = "idle" /\ calls'[c].pc = "returned" =>
           embeddingCache' = embeddingCache

C11_CacheBound == [] C11_CacheState /\ [][C11_CacheStep]_vars

\* a call was answered from the cache with the embedding of the text inserted
\* earliest, and a later insertion has evicted that entry all the same
C11_Witness ==
  /\ Len(embeddingCache) = embeddingCacheCapacity
  /\ generateCacheKey(PastText(0)) \notin CacheKeys(embeddingCache)
  /\ generateCacheKey(PastText(1)) \in CacheKeys(embeddingCache)
  /\ \E c \in DOMAIN calls :
        /\ calls[c].pc = "returned" /\ calls[c].query = PastText(0)
        /\ calls[c].embAttempt = 0

(***************************************************************************)
(* SpecMetrics: processQuery calls that succeed with different confidences,*)
(* and clearHistory.                                                       *)
(***************************************************************************)
InitMetrics == InitState(MaxMetricCalls, { FragmentD1, FragmentD2, FragmentD2b }, 0, FALSE)

\* the answers of the store taken here: the fragments in one order, each at
\* distance 0 or 0.5
MetricsAnswers(where, nResults) ==
  { rows \in StoreAnswers(store, where, nResults, { 0, 5 }) :
       \A a, b \in DOMAIN rows :
          a < b => rows[a].fragment.metadata.expiresAtMs < rows[b].fragment.metadata.expiresAtMs }

NextMetrics ==
  \/ \E c \in DOMAIN calls :
        \/ ProcessQuery(c, TextA, 5, NoArgument)
        \/ EmbeddingProviderResponds(c, ProviderEmbedding(calls[c].input))
        \/ \E rows \in MetricsAnswers(calls[c].where, calls[c].maxResults) :
              StoreResponds(c, rows)
        \/ GenerationProviderResponds(c, Response(AnswerText, << >>, << >>, << >>, 7))
  \/ clearHistory

SpecMetrics == InitMetrics /\ [][NextMetrics]_vars

\* a confidence in six-hundredths (its denominator is 100, 200 or 300)
SixHundredths(confidence) == (confidence.num * 600) \div confidence.den

RECURSIVE SumSixHundredths(_)
SumSixHundredths(history) ==
  IF history = << >> THEN 0
  ELSE SixHundredths(Head(history).value.confidence) + SumSixHundredths(Tail(history))

\* the average after the saved queries, by newAvg = (oldAvg * (n - 1) + c) / n
\* rounded to two decimals at every step, in hundredths
RECURSIVE RunningAverage(_)
RunningAverage(history) ==
  IF history = << >> THEN 0
  ELSE LET n == Len(history)
           last == history[n].value.confidence
       IN Round(RunningAverage(SubSeq(history, 1, n - 1)) * (n - 1) * last.den
                  + 100 * last.num,
                n * last.den)

CountErrors == { MsgTimeout }

InitCount ==
  \E fragments \in { { FragmentExpired }, { FragmentD2 } } :
     InitState(MaxCountCalls, fragments, maxRetries, FALSE)

NextCount ==
  \/ \E c \in DOMAIN calls :
        \/ ProcessQuery(c, TextA, 5, NoArgument)
        \/ EmbeddingProviderResponds(c, ProviderEmbedding(calls[c].input))
        \/ \E rows \in StoreAnswers(store, calls[c].where, calls[c].maxResults, { 5 }) :
              StoreResponds(c, rows)
        \/ \E response \in BatchResponses : GenerationProviderResponds(c, response)
        \/ \E message \in CountErrors : GenerationProviderFails(c, message)
        \/ GenerationStageTimer(c)
        \/ BackoffTimer(c)
  \/ clearHistory

SpecCount == InitCount /\ [][NextCount]_vars

\* the calls that have returned an answer synthesized from retrieved fragments
Synthesized ==
  { c \in QueryCalls : calls[c].pc = "returned" /\ calls[c].found > 0 }

\* call c returns a synthesized answer in this step
ReturnsSynthesized(c) ==
  /\ calls[c].pc # "returned"
  /\ calls'[c].pc = "returned" /\ calls'[c].found > 0

\* C13: a processQuery call that returns a synthesized answer appends exactly
\* one history entry and adds exactly 1 to totalQueries and successfulQueries,
\* whatever the number of its attempts; every other step of a call leaves the
\* history and the metrics as they are.
C13_RecordsOnce ==
  /\ \A c \in DOMAIN calls :
        ReturnsSynthesized(c) =>
           /\ queryHistory' = Append(queryHistory, queryHistory'[Len(queryHistory')])
           /\ queryHistory'[Len(queryHistory')].value.query = calls[c].query
           /\ performanceMetrics'.totalQueries = performanceMetrics.totalQueries + 1
           /\ performanceMetrics'.successfulQueries =
                 performanceMetrics.successfulQueries + 1
           /\ performanceMetrics'.failedQueries = performanceMetrics.failedQueries
  /\ calls' # calls /\ ~ (\E c \in DOMAIN calls : ReturnsSynthesized(c)) =>
        UNCHANGED << queryHistory, performanceMetrics >>

C13_OneRecordPerAnswer == [][C13_RecordsOnce]_vars

C13_Witness ==
  \E c \in Synthesized :
     /\ calls[c].attempt = 2
     /\ Len(queryHistory) = 1
     /\ performanceMetrics.totalQueries = 1
     /\ performanceMetrics.successfulQueries = 1

\* C14 (as claimed): a processQuery call that fails permanently adds 1 to
\* totalQueries and to failedQueries.
C14_CountsFailure ==
  \A c \in DOMAIN calls :
     calls[c].pc # "thrown" /\ calls'[c].pc = "thrown" =>
        /\ performanceMetrics'.totalQueries = performanceMetrics.totalQueries + 1
        /\ performanceMetrics'.failedQueries = performanceMetrics.failedQueries + 1

C14_FailedQueriesCounted == [][C14_CountsFailure]_vars

\* C15: whatever the interleaving of the calls, every synthesized answer has
\* been saved and counted once: the saves number the synthesized answers, the
\* history holds the last of them without a gap, successfulQueries is its
\* length, and while nothing has been cleared both are the number of
\* synthesized answers.
C15_NothingLost ==
  /\ nextId - 1 = Cardinality(Synthesized)
  /\ performanceMetrics.successfulQueries = Len(queryHistory)
  /\ \A k \in DOMAIN queryHistory :
        queryHistory[k].key = nextId - 1 - Len(queryHistory) + k
  /\ queryHistory # << >> /\ queryHistory[1].key = 1 =>
        /\ performanceMetrics.successfulQueries = Cardinality(Synthesized)
        /\ Len(queryHistory) = Min(Cardinality(Synthesized), historyCapacity)

\* two calls for the same text have both asked the provider for its embedding,
\* so each passed the cache before the other's embedding arrived, and both
\* have returned synthesized answers
C15_Witness ==
  /\ Synthesized = DOMAIN calls
  /\ \A c \in DOMAIN calls : calls[c].attempt = 1 /\ calls[c].embAttempt = 1
  /\ performanceMetrics.successfulQueries = MaxCountCalls
  /\ Len(queryHistory) = MaxCountCalls

\* C16: clearHistory empties the history and zeroes every counter and average
\* (lastQueryTime becomes null); no other step decreases totalQueries,
\* successfulQueries, failedQueries or totalTokensUsed.
C16_ClearOrGrow ==
  /\ clearHistory =>
        /\ queryHistory' = << >>
        /\ \A f \in { "totalQueries", "successfulQueries", "failedQueries",
                      "totalTokensUsed", "averageProcessingTime", "averageConfidence" } :
              performanceMetrics'[f] = 0
        /\ performanceMetrics'.lastQueryTime = 0 - 1
  /\ ~ clearHistory =>
        \A f \in { "totalQueries", "successfulQueries", "failedQueries", "totalTokensUsed" } :
           performanceMetrics'[f] >= performanceMetrics[f]

C16_ResetOnlyByClear == [][C16_ClearOrGrow]_vars

C16_Witness ==
  /\ Synthesized # {}
  /\ queryHistory = << >>
  /\ performanceMetrics = InitialMetrics

(***************************************************************************)
(* SpecChunk: splitText applied to every short text over a small alphabet  *)
(* by chunkers of small sizes.                                             *)
(***************************************************************************)
MaxTextLen == 5
MaxSize == 3

ChunkAlphabet == { "a", "b", " ", ".", "\n" }

ChunkTexts == UNION { [ 1 .. n -> ChunkAlphabet ] : n \in 0 .. MaxTextLen }

ChunkInputs ==
  { StringValue(chars) : chars \in ChunkTexts } \cup
  { UndefinedValue, NullValue, NumberValue }

ChunkOptions ==
  { NoOptions } \cup
  { [ maxChunkSize |-> m, overlapSize |-> o ] : m \in 2 .. MaxSize, o \in 1 .. MaxSize }

InitChunk ==
  /\ calls = [ c \in {} |-> IdleCall ]
  /\ batch = IdleBatch
  /\ embeddingCache = << >>
  /\ providerLog = [ observe |-> FALSE, requests |-> [ k \in {} |-> 0 ], fetched |-> {} ]
  /\ store = {}
  /\ queryHistory = << >>
  /\ performanceMetrics = InitialMetrics
  /\ now = 0
  /\ nextId = 1
  /\ settled = << >>
  /\ historyReply = NoReply
  /\ faultsLeft = 0
  /\ \E options \in ChunkOptions : textChunker = TextChunker(options)
  /\ \E text \in ChunkInputs : splitCall = [ NoSplit EXCEPT !.pc = "called", !.text = text ]
  /\ request = NoRequest
  /\ embedBatch = IdleEmbedBatch
  /\ retention = IdleRetention

NextChunk == SplitText

SpecChunk == InitChunk /\ [][NextChunk]_vars

\* the configurations the size and overlap claims are about
SizesInRange ==
  0 < textChunker.overlapSize /\ textChunker.overlapSize < textChunker.maxChunkSize

\* the cleaned form of a string: whitespace collapsed, then trimmed
Cleaned(str) == trim(CollapseWhitespace(str))

\* the last n characters of str, all of it when it is shorter
Trailing(str, n) == IF Len(str) <= n THEN str ELSE SubSeq(str, Len(str) - n + 1, Len(str))

StartsWith(str, prefix) ==
  Len(prefix) <= Len(str) /\ SubSeq(str, 1, Len(prefix)) = prefix

Returned == splitCall.pc = "returned"

\* C17 (as claimed): for every string whose cleaned form is no longer than
\* maxChunkSize, splitText returns exactly one chunk, the cleaned form.
C17_ShortTextOneChunk ==
  Returned /\ splitCall.text.type = "string"
           /\ Len(Cleaned(splitCall.text.chars)) <= textChunker.maxChunkSize =>
     splitCall.chunks = << Cleaned(splitCall.text.chars) >>

\* C17 (amended): for every string other than the empty string whose cleaned
\* form is no longer than maxChunkSize, splitText returns exactly one chunk,
\* the cleaned form; for the empty string it returns no chunk.
C17_NonEmptyShortTextOneChunk ==
  Returned /\ splitCall.text.type = "string"
           /\ Len(Cleaned(splitCall.text.chars)) <= textChunker.maxChunkSize =>
     splitCall.chunks = IF splitCall.text.chars = << >> THEN << >>
                        ELSE << Cleaned(splitCall.text.chars) >>

\* a text with a leading space and a line break before a space came back as
\* one chunk no longer than the limit of a small chunker
C17_Witness ==
  /\ Returned
  /\ splitCall.text = StringValue(<< " ", "a", "\n", " ", "b" >>)
  /\ textChunker.maxChunkSize = MaxSize
  /\ splitCall.chunks = << << "a", " ", "b" >> >>

\* C18: for every chunker with 0 < overlapSize < maxChunkSize and every text,
\* no chunk splitText returns is longer than maxChunkSize.
C18_ChunkSizeBound ==
  Returned /\ SizesInRange =>
     \A k \in DOMAIN splitCall.chunks :
        Len(splitCall.chunks[k]) <= textChunker.maxChunkSize

\* a long text was cut into a chunk at a separator, shorter than the limit,
\* followed by a chunk of exactly the limit
C18_Witness ==
  /\ Returned /\ SizesInRange
  /\ Len(splitCall.chunks) >= 3
  /\ \E k \in DOMAIN splitCall.chunks :
        /\ k < Len(splitCall.chunks)
        /\ Len(splitCall.chunks[k]) < textChunker.maxChunkSize
  /\ \E k \in DOMAIN splitCall.chunks :
        /\ k > 1
        /\ Len(splitCall.chunks[k]) = textChunker.maxChunkSize

\* C19 (as claimed, for chunkers with 0 < overlapSize < maxChunkSize): when
\* the text is longer than maxChunkSize, each chunk after the first starts
\* with the last overlapSize characters of the chunk before it, with the
\* whole of it when it is shorter.
C19_OverlapPrefix ==
  Returned /\ SizesInRange /\ splitCall.text.type = "string"
           /\ Len(Cleaned(splitCall.text.chars)) > textChunker.maxChunkSize =>
     \A k \in 1 .. Len(splitCall.chunks) - 1 :
        StartsWith(splitCall.chunks[k + 1],
                   Trailing(splitCall.chunks[k], textChunker.overlapSize))

\* C20 (as claimed): every chunk splitText returns is a non-empty string, and
\* an input without content (empty, not a string, only whitespace) gives no
\* chunk.
C20_NoEmptyChunk ==
  Returned =>
     /\ \A k \in DOMAIN splitCall.chunks : splitCall.chunks[k] # << >>
     /\ splitCall.text.type # "string" \/ Cleaned(splitCall.text.chars) = << >> =>
           splitCall.chunks = << >>

(***************************************************************************)
(* TextChunker.chunkBySentences.                                           *)
(***************************************************************************)
\* text.split(/[.!?]+/).filter(s => s.trim())
Sentences(text) ==
  SelectSeq(SplitRuns(text, IsSentenceEnd, << >>), LAMBDA s : trim(s) # << >>)

\* the loop of chunkBySentences over the sentences left, then the last push
RECURSIVE GroupSentences(_, _, _, _)
GroupSentences(chunker, sentences, chunks, currentChunk) ==
  IF sentences = << >>
  THEN IF currentChunk # << >> THEN Append(chunks, currentChunk \o << "." >>) ELSE chunks
  ELSE LET trimmedSentence == trim(Head(sentences))
       IN IF Len(currentChunk) + Len(trimmedSentence) <= chunker.maxChunkSize
          THEN GroupSentences(chunker, Tail(sentences), chunks,
                  currentChunk \o (IF currentChunk # << >> THEN << ".", " " >> ELSE << >>)
                               \o trimmedSentence)
          ELSE IF currentChunk # << >>
               THEN GroupSentences(chunker, Tail(sentences),
                       Append(chunks, currentChunk \o << "." >>), trimmedSentence)
               ELSE GroupSentences(chunker, Tail(sentences),
                       Append(chunks, trimmedSentence \o << "." >>), currentChunk)

chunkBySentences(chunker, text) == GroupSentences(chunker, Sentences(text), << >>, << >>)

\* a call textChunker.chunkBySentences(text), from its start to its return
ChunkBySentences ==
  /\ splitCall.pc = "sentencesCalled"
  /\ splitCall' = [ splitCall EXCEPT
                      !.pc = "sentencesReturned",
                      !.chunks = chunkBySentences(textChunker, splitCall.text.chars) ]
  /\ UNCHANGED << calls, batch, embeddingCache, providerLog, store, queryHistory,
                  performanceMetrics, now, nextId, settled, historyReply, faultsLeft,
                  textChunker, request,
                  embedBatch, retention >>

(***************************************************************************)
(* SpecSentences: chunkBySentences applied to every short text.            *)
(***************************************************************************)
SentenceOptions ==
  { NoOptions } \cup { [ maxChunkSize |-> m, overlapSize |-> 0 ] : m \in 1 .. MaxSize }

InitSentences ==
  /\ InitServices(0, {}, 0, FALSE)
  /\ \E options \in SentenceOptions : textChunker = TextChunker(options)
  /\ \E chars \in ChunkTexts :
        splitCall = [ NoSplit EXCEPT !.pc = "sentencesCalled", !.text = StringValue(chars) ]
  /\ request = NoRequest
  /\ embedBatch = IdleEmbedBatch
  /\ retention = IdleRetention

NextSentences == ChunkBySentences

SpecSentences == InitSentences /\ [][NextSentences]_vars

\* C21 (as claimed): when no sentence of the text is longer than maxChunkSize,
\* no chunk chunkBySentences returns is longer than maxChunkSize + 1.
C21_SentenceChunkBound ==
  /\ splitCall.pc = "sentencesReturned"
  /\ \A k \in DOMAIN Sentences(splitCall.text.chars) :
        Len(trim(Sentences(splitCall.text.chars)[k])) <= textChunker.maxChunkSize
  => \A k \in DOMAIN splitCall.chunks :
        Len(splitCall.chunks[k]) <= textChunker.maxChunkSize + 1

(***************************************************************************)
(* Validation middleware (middleware/validation.js) and the rag router.    *)
(* A JavaScript value is a record with its kind in .type; a number is kept *)
(* in tenths, so that 2.5 is a value.                                      *)
(***************************************************************************)
Undefined == [ type |-> "undefined" ]
Null == [ type |-> "null" ]
Boolean(b) == [ type |-> "boolean", value |-> b ]
Number(tenths) == [ type |-> "number", tenths |-> tenths ]
Array(items) == [ type |-> "array", items |-> items ]

\* typeof v
typeof(v) == IF v.type \in { "null", "array", "date" } THEN "object" ELSE v.type

\* the truth value of v in a condition
Truthy(v) ==
  CASE v.type = "string" -> v.chars # << >>
    [] v.type = "number" -> v.tenths # 0
    [] v.type = "boolean" -> v.value
    [] v.type = "array" -> TRUE
    [] OTHER -> FALSE

Max(a, b) == IF a >= b THEN a ELSE b

NaN == [ nan |-> TRUE, value |-> 0 ]
Int32(n) == [ nan |-> FALSE, value |-> n ]

RECURSIVE LeadingDigits(_, _)
LeadingDigits(str, value) ==
  IF str # << >> /\ Head(str) \in Range(Digits)
  THEN LeadingDigits(Tail(str), 10 * value + IndexOf(Digits, Head(str)) - 1)
  ELSE value

\* parseInt(v): a number is cut to its integer part, a string is read up to
\* its first character that is not a digit, anything else is NaN
parseInt(v) ==
  CASE v.type = "number" ->
         Int32(IF v.tenths >= 0 THEN v.tenths \div 10 ELSE 0 - ((0 - v.tenths) \div 10))
    [] v.type = "string" ->
         LET str == TrimLeft(v.chars)
         IN IF str # << >> /\ Head(str) \in Range(Digits)
            THEN Int32(LeadingDigits(str, 0)) ELSE NaN
    [] OTHER -> NaN

\* the field of a body, undefined when the body has no such field
Field(body, key) == IF key \in DOMAIN body THEN body[key] ELSE Undefined

\* body with body[key] = value
SetField(body, key, value) ==
  [ k \in DOMAIN body \cup { key } |-> IF k = key THEN value ELSE body[k] ]

\* res.status(400).json({ error }) without a call of next
Respond400(body, error) ==
  [ status |-> 400, error |-> error, responses |-> 1, nextCalls |-> 0, body |-> body ]

\* next() without a response
CallNext(body) ==
  [ status |-> 0, error |-> "", responses |-> 0, nextCalls |-> 1, body |-> body ]

\* a variant of validateRAGQuery without the clamp of maxResults
validateRAGQueryNoClamp(body) ==
  LET query == Field(body, "query")
      maxResults == IF Field(body, "maxResults") = Undefined THEN Number(50)
                    ELSE Field(body, "maxResults")
      documentId == Field(body, "documentId")
  IN IF ~ Truthy(query) \/ typeof(query) # "string"
     THEN Respond400(body, "Invalid query")
     ELSE IF Len(trim(query.chars)) < 3 THEN Respond400(body, "Query too short")
     ELSE IF Len(query.chars) > 1000 THEN Respond400(body, "Query too long")
     ELSE IF Truthy(documentId) /\ typeof(documentId) # "string"
     THEN Respond400(body, "Invalid documentId")
     ELSE LET parsed == parseInt(maxResults)
              withQuery == SetField(body, "query", StringValue(trim(query.chars)))
              withMax == SetField(withQuery, "maxResults",
                            Number(10 * (IF parsed.nan \/ parsed.value = 0 THEN 5
                                         ELSE parsed.value)))
          IN CallNext(IF Truthy(documentId)
                      THEN SetField(withMax, "documentId", StringValue(trim(documentId.chars)))
                      ELSE withMax)

\* validateRAGQuery (validation.js:3-52)
validateRAGQuery(body) ==
  LET query == Field(body, "query")
      maxResults == IF Field(body, "maxResults") = Undefined THEN Number(50)
                    ELSE Field(body, "maxResults")
      documentId == Field(body, "documentId")
  IN IF ~ Truthy(query) \/ typeof(query) # "string"
     THEN Respond400(body, "Invalid query")
     ELSE IF Len(trim(query.chars)) < 3 THEN Respond400(body, "Query too short")
     ELSE IF Len(query.chars) > 1000 THEN Respond400(body, "Query too long")
     ELSE IF Truthy(maxResults) /\ (typeof(maxResults) # "number"
                                      \/ maxResults.tenths < 10 \/ maxResults.tenths > 200)
     THEN Respond400(body, "Invalid maxResults")
     ELSE IF Truthy(documentId) /\ typeof(documentId) # "string"
     THEN Respond400(body, "Invalid documentId")
     ELSE LET parsed == parseInt(maxResults)
              withQuery == SetField(body, "query", StringValue(trim(query.chars)))
              withMax == SetField(withQuery, "maxResults",
                            Number(10 * Min(Max(IF parsed.nan \/ parsed.value = 0 THEN 5
                                                ELSE parsed.value, 1), 20)))
          IN CallNext(IF Truthy(documentId)
                      THEN SetField(withMax, "documentId", StringValue(trim(documentId.chars)))
                      ELSE withMax)

\* a request as the middleware receives it
NewRequest(route, body, pc) ==
  [ pc |-> pc, route |-> route, received |-> body, body |-> body, status |-> 0,
    error |-> "", responses |-> 0, nextCalls |-> 0, reached |-> << >> ]

\* the request after a middleware has answered it or passed it on
After(req, outcome) ==
  [ req EXCEPT !.pc = IF outcome.nextCalls > 0 THEN "handler" ELSE "responded",
               !.body = outcome.body, !.status = outcome.status,
               !.error = outcome.error,
               !.responses = @ + outcome.responses,
               !.nextCalls = @ + outcome.nextCalls ]

\* the router runs validateRAGQuery on the request
ValidateRAGQuery ==
  /\ request.pc = "validateRAGQuery"
  /\ request' = After(request, validateRAGQuery(request.body))
  /\ UNCHANGED << calls, batch, embeddingCache, providerLog, store, queryHistory,
                  performanceMetrics, now, nextId, settled, historyReply, faultsLeft,
                  textChunker, splitCall, embedBatch, retention >>

(***************************************************************************)
(* SpecValidate: validateRAGQuery on request bodies around its limits.     *)
(***************************************************************************)
Repeat(ch, n) == [ k \in 1 .. n |-> ch ]

QueryValues ==
  { Undefined, Null, Number(0), Number(30), Boolean(TRUE), Array(<< >>) } \cup
  { StringValue(Repeat("a", n)) : n \in { 0, 2, 3, 999, 1000, 1001 } } \cup
  { StringValue(<< " " >> \o Repeat("a", n) \o << " " >>) : n \in { 0, 2, 3, 998, 999 } }

MaxResultsValues ==
  { Undefined, Null, Boolean(FALSE), Boolean(TRUE), StringValue(<< >>),
    StringValue(<< "7" >>) } \cup
  { Number(t) : t \in { 0 - 10, 0, 5, 10, 15, 25, 199, 200, 201, 210 } }

DocumentIdValues == { Undefined, Number(10), StringValue(<< " ", "d", "1" >>) }

ValidateBodies ==
  { [ query |-> q, maxResults |-> m, documentId |-> d ] :
       q \in QueryValues, m \in MaxResultsValues, d \in DocumentIdValues } \cup
  { [ query |-> q ] : q \in QueryValues } \cup
  { [ queries |-> Array(<< StringValue(Repeat("a", 3)) >>) ] }

InitValidate ==
  /\ InitServices(0, {}, 0, FALSE)
  /\ textChunker = TextChunker(NoOptions)
  /\ splitCall = NoSplit
  /\ embedBatch = IdleEmbedBatch
  /\ retention = IdleRetention
  /\ \E body \in ValidateBodies : request = NewRequest("query", body, "validateRAGQuery")

NextValidate == ValidateRAGQuery

SpecValidate == InitValidate /\ [][NextValidate]_vars

\* the query of the body as it was received
ReceivedQuery == Field(request.received, "query")

\* C22: validateRAGQuery either responds 400 without calling next or calls
\* next once without responding; it calls next only if query is a string
\* whose trimmed form has at least 3 characters and which has at most 1000,
\* and then the body holds the trimmed query and an integer maxResults in
\* 1..20.
C22_ValidateRAGQuery ==
  request.pc \in { "handler", "responded" } =>
     /\ \/ request.responses = 1 /\ request.status = 400 /\ request.nextCalls = 0
        \/ request.responses = 0 /\ request.nextCalls = 1
     /\ request.nextCalls = 1 =>
           /\ ReceivedQuery.type = "string"
           /\ Len(trim(ReceivedQuery.chars)) >= 3
           /\ Len(ReceivedQuery.chars) <= 1000
           /\ request.body.query = StringValue(trim(ReceivedQuery.chars))
           /\ request.body.maxResults.type = "number"
           /\ request.body.maxResults.tenths \in { 10 * n : n \in 1 .. 20 }

\* a query with surrounding spaces and maxResults 2.5 has passed: the body
\* holds the trimmed query and maxResults 2
C22_Witness ==
  /\ request.pc = "handler"
  /\ ReceivedQuery = StringValue(<< " ", "a", "a", "a", " " >>)
  /\ Field(request.received, "maxResults") = Number(25)
  /\ request.body.query = StringValue(<< "a", "a", "a" >>)
  /\ request.body.maxResults = Number(20)

(***************************************************************************)
(* The rag router: router.use(sanitizeInput), then                         *)
(* post('/batch-query', validateRAGQuery, batchQueryRAG). A call of next() *)
(* enters the next function of the chain; the model makes it the next step *)
(* of the request.                                                         *)
(***************************************************************************)
\* sanitizeString: the five characters replaced by their entities
RECURSIVE sanitizeString(_)
sanitizeString(str) ==
  IF str = << >> THEN << >>
  ELSE (CASE Head(str) = "<" -> << "&", "l", "t", ";" >>
          [] Head(str) = ">" -> << "&", "g", "t", ";" >>
          [] Head(str) = "\"" -> << "&", "q", "u", "o", "t", ";" >>
          [] Head(str) = "'" -> << "&", "#", "x", "2", "7", ";" >>
          [] Head(str) = "/" -> << "&", "#", "x", "2", "F", ";" >>
          [] OTHER -> << Head(str) >>) \o sanitizeString(Tail(str))

\* sanitizeInput on req.body: every field that is a string is sanitized
sanitizeInput(body) ==
  [ k \in DOMAIN body |->
      IF typeof(body[k]) = "string" THEN StringValue(sanitizeString(body[k].chars))
      ELSE body[k] ]

SanitizeInput ==
  /\ request.pc = "sanitizeInput"
  /\ request' = [ request EXCEPT !.pc = "validateRAGQuery",
                                 !.body = sanitizeInput(request.body) ]
  /\ UNCHANGED << calls, batch, embeddingCache, providerLog, store, queryHistory,
                  performanceMetrics, now, nextId, settled, historyReply, faultsLeft,
                  textChunker, splitCall, embedBatch, retention >>

\* the texts of an array of strings
Texts(items) == [ k \in DOMAIN items |-> items[k].chars ]

\* controller batchQueryRAG as the last function of the chain (lines 35-60),
\* with batchProcessQueries up to its first await
BatchQueryController ==
  /\ request.pc = "handler"
  /\ request.route = "batch-query"
  /\ batch.pc = "idle"
  /\ LET queries == Field(request.body, "queries")
         maxResults == IF Field(request.body, "maxResults") = Undefined THEN 5
                       ELSE request.body.maxResults.tenths \div 10
     IN IF queries.type # "array" \/ Len(queries.items) = 0
        THEN /\ request' = [ request EXCEPT !.pc = "responded", !.status = 400,
                                            !.error = "Invalid queries",
                                            !.responses = @ + 1 ]
             /\ UNCHANGED << calls, batch, embeddingCache, providerLog, queryHistory,
                             performanceMetrics, nextId, settled >>
        ELSE IF Len(queries.items) > 10
        THEN /\ request' = [ request EXCEPT !.pc = "responded", !.status = 400,
                                            !.error = "Too many queries",
                                            !.responses = @ + 1 ]
             /\ UNCHANGED << calls, batch, embeddingCache, providerLog, queryHistory,
                             performanceMetrics, nextId, settled >>
        ELSE /\ request' = [ request EXCEPT !.pc = "inController",
                                            !.reached = Texts(queries.items) ]
             /\ batch' = [ batch EXCEPT !.pc = "running",
                                        !.queries = Texts(queries.items),
                                        !.maxResults = maxResults ]
             /\ Commit(StartCalls(World, 1, LastOfSubBatch(0, Texts(queries.items)),
                                  Texts(queries.items), maxResults, now))
  /\ UNCHANGED << store, now, historyReply, faultsLeft, textChunker, splitCall,
                  embedBatch, retention >>

(***************************************************************************)
(* SpecRoute: POST /rag/batch-query requests through the chain.            *)
(***************************************************************************)
MaxRouteQueries == 11

QueriesOf(n) == Array([ k \in 1 .. n |-> StringValue(IF k % 2 = 1 THEN TextA ELSE TextB) ])

RouteQueries ==
  { QueriesOf(n) : n \in 0 .. MaxRouteQueries } \cup
  { Undefined, StringValue(Repeat("a", 3)) }

RouteBodies ==
  { [ queries |-> q ] : q \in RouteQueries \ { Undefined } } \cup
  { [ queries |-> q, maxResults |-> Number(30) ] : q \in RouteQueries \ { Undefined } } \cup
  { [ maxResults |-> Number(30) ] } \cup
  { [ query |-> StringValue(t), queries |-> q, maxResults |-> Number(30) ] :
       q \in RouteQueries \ { Undefined },
       t \in { Repeat("a", 3), << "a", "/", "b" >>, Repeat("a", 2) } } \cup
  { [ query |-> StringValue(t), maxResults |-> Number(30) ] :
       t \in { Repeat("a", 3), << "a", "/", "b" >>, Repeat("a", 2) } }

InitRoute ==
  /\ InitServices(batchSize, { FragmentD2 }, 0, FALSE)
  /\ textChunker = TextChunker(NoOptions)
  /\ splitCall = NoSplit
  /\ embedBatch = IdleEmbedBatch
  /\ retention = IdleRetention
  /\ \E body \in RouteBodies : request = NewRequest("batch-query", body, "sanitizeInput")

NextRoute ==
  \/ SanitizeInput
  \/ ValidateRAGQuery
  \/ BatchQueryController

SpecRoute == InitRoute /\ [][NextRoute]_vars

\* the array of queries the request came with, undefined when it has none
ReceivedQueries == Field(request.received, "queries")

\* the body holds only queries, an array of 1 to 10 strings, and maxResults
ReadmeShaped ==
  /\ DOMAIN request.received \subseteq { "queries", "maxResults" }
  /\ ReceivedQueries.type = "array"
  /\ Len(ReceivedQueries.items) \in 1 .. 10
  /\ \A k \in DOMAIN ReceivedQueries.items : ReceivedQueries.items[k].type = "string"

\* C23 (as claimed): once the chain is through with a POST /rag/batch-query
\* request, a body holding only 1 to 10 query strings and maxResults has
\* reached batchProcessQueries with exactly those queries, and a body whose
\* queries array is missing, empty or longer than 10 has been answered 400
\* without reaching it.
C23_BatchRoute ==
  request.pc \in { "responded", "inController" } =>
     /\ ReadmeShaped =>
           /\ request.pc = "inController"
           /\ batch.pc = "running"
           /\ batch.queries = Texts(ReceivedQueries.items)
     /\ (ReceivedQueries.type # "array" \/ Len(ReceivedQueries.items) \notin 1 .. 10) =>
           /\ request.status = 400
           /\ batch.pc = "idle"

(***************************************************************************)
(* validateDocumentMetadata (validation.js:54-131).                        *)
(***************************************************************************)
IsComma(ch) == ch = ","

ParseError == [ ok |-> FALSE, value |-> Undefined ]
Parsed(v) == [ ok |-> TRUE, value |-> v ]

\* the characters of a string literal up to its closing quote, and what
\* follows the quote; a literal with a backslash or without the closing quote
\* is not read
ReadLiteral(str, chars) ==
  LET stops == { i \in DOMAIN str : str[i] \in { "\"", "\\" } }
      stop == CHOOSE i \in stops : \A j \in stops : i <= j
  IN IF stops = {} \/ str[stop] = "\\"
     THEN [ ok |-> FALSE, chars |-> chars, rest |-> str ]
     ELSE [ ok |-> TRUE, chars |-> chars \o SubSeq(str, 1, stop - 1),
            rest |-> SubSeq(str, stop + 1, Len(str)) ]

RECURSIVE DigitsPrefix(_)
DigitsPrefix(str) ==
  IF str # << >> /\ Head(str) \in Range(Digits)
  THEN << Head(str) >> \o DigitsPrefix(Tail(str)) ELSE << >>

\* one element of a JSON array: a string literal, a natural number or null
ReadElement(str) ==
  IF str = << >> THEN [ ok |-> FALSE, value |-> Undefined, rest |-> str ]
  ELSE IF Head(str) = "\""
  THEN LET literal == ReadLiteral(Tail(str), << >>)
       IN [ ok |-> literal.ok, value |-> StringValue(literal.chars), rest |-> literal.rest ]
  ELSE IF Head(str) \in Range(Digits)
  THEN LET digits == DigitsPrefix(str)
       IN [ ok |-> Len(digits) = 1 \/ Head(digits) # "0",
            value |-> Number(10 * LeadingDigits(digits, 0)),
            rest |-> SubSeq(str, Len(digits) + 1, Len(str)) ]
  ELSE IF Len(str) >= 4 /\ SubSeq(str, 1, 4) = << "n", "u", "l", "l" >>
  THEN [ ok |-> TRUE, value |-> Null, rest |-> SubSeq(str, 5, Len(str)) ]
  ELSE [ ok |-> FALSE, value |-> Undefined, rest |-> str ]

\* the elements of a JSON array from an element on, up to the closing bracket
RECURSIVE ReadElements(_, _)
ReadElements(str, items) ==
  LET element == ReadElement(TrimLeft(str))
      after == TrimLeft(element.rest)
  IN IF ~ element.ok \/ after = << >> THEN ParseError
     ELSE IF Head(after) = "," THEN ReadElements(Tail(after), Append(items, element.value))
     ELSE IF Head(after) = "]" /\ TrimLeft(Tail(after)) = << >>
     THEN Parsed(Array(Append(items, element.value)))
     ELSE ParseError

\* JSON.parse of a text that starts with '[': arrays of string literals
\* without escapes, natural numbers and null are read; the texts the model
\* feeds it are of this form or are no JSON at all (a SyntaxError)
JSONparse(str) ==
  LET inner == TrimLeft(Tail(str))
  IN IF inner # << >> /\ Head(inner) = "]"
     THEN IF TrimLeft(Tail(inner)) = << >> THEN Parsed(Array(<< >>)) ELSE ParseError
     ELSE ReadElements(inner, << >>)

\* String.prototype.split(','): the pieces between the commas
splitComma(str) ==
  LET commas == { i \in DOMAIN str : IsComma(str[i]) }
      edge(k) == IF k = 0 THEN 0
                 ELSE IF k > Cardinality(commas) THEN Len(str) + 1
                 ELSE CHOOSE i \in commas : Cardinality({ j \in commas : j < i }) = k - 1
  IN [ k \in 1 .. Cardinality(commas) + 1 |-> SubSeq(str, edge(k - 1) + 1, edge(k) - 1) ]

\* trimmed.length ? trimmed.split(',') : []
SplitTags(trimmed) ==
  IF trimmed = << >> THEN Array(<< >>)
  ELSE Array([ k \in DOMAIN splitComma(trimmed) |-> StringValue(splitComma(trimmed)[k]) ])

\* lines 88-101: tags given as a string become an array
tagsFromString(tags) ==
  LET trimmed == trim(tags.chars)
  IN IF trimmed # << >> /\ Head(trimmed) = "["
     THEN IF JSONparse(trimmed).ok THEN JSONparse(trimmed).value ELSE SplitTags(trimmed)
     ELSE SplitTags(trimmed)

\* a variant of normalizeTags that keeps the tags untrimmed
normalizeTagsUntrimmed(items) == SelectSeq(items, Truthy)

\* line 118: tags.map(tag => typeof tag === 'string' ? tag.trim() : tag).filter(Boolean)
normalizeTags(items) ==
  SelectSeq([ k \in DOMAIN items |->
                IF typeof(items[k]) = "string" THEN StringValue(trim(items[k].chars))
                ELSE items[k] ],
            Truthy)

\* lines 128-129: a truthy title or description is trimmed
TrimField(body, key) ==
  IF Truthy(Field(body, key)) THEN SetField(body, key, StringValue(trim(body[key].chars)))
  ELSE body

validateDocumentMetadata(body) ==
  LET title == Field(body, "title")
      description == Field(body, "description")
      given == Field(body, "tags")
      tags == IF typeof(given) = "string" THEN tagsFromString(given) ELSE given
  IN IF Truthy(title) /\ typeof(title) # "string" THEN Respond400(body, "Invalid title")
     ELSE IF Truthy(title) /\ Len(title.chars) > 200 THEN Respond400(body, "Title too long")
     ELSE IF Truthy(description) /\ typeof(description) # "string"
     THEN Respond400(body, "Invalid description")
     ELSE IF Truthy(description) /\ Len(description.chars) > 1000
     THEN Respond400(body, "Description too long")
     ELSE IF Truthy(tags) /\ tags.type # "array" THEN Respond400(body, "Invalid tags")
     ELSE IF Truthy(tags) /\ Len(tags.items) > 10 THEN Respond400(body, "Too many tags")
     ELSE IF Truthy(tags) /\ \E k \in DOMAIN normalizeTags(tags.items) :
                                \/ typeof(normalizeTags(tags.items)[k]) # "string"
                                \/ Len(normalizeTags(tags.items)[k].chars) > 50
     THEN Respond400(body, "Invalid tag format")
     ELSE CallNext(TrimField(TrimField(
             IF Truthy(tags) THEN SetField(body, "tags", Array(normalizeTags(tags.items)))
             ELSE body, "title"), "description"))

\* the router runs validateDocumentMetadata on the request
ValidateDocumentMetadata ==
  /\ request.pc = "validateDocumentMetadata"
  /\ request' = After(request, validateDocumentMetadata(request.body))
  /\ UNCHANGED << calls, batch, embeddingCache, providerLog, store, queryHistory,
                  performanceMetrics, now, nextId, settled, historyReply, faultsLeft,
                  textChunker, splitCall, embedBatch, retention >>

(***************************************************************************)
(* SpecMetadata: validateDocumentMetadata on tags in the three forms.      *)
(***************************************************************************)
MaxTags == 11

\* n plain tags followed by the items of tail
TagItems(n, tail) == [ k \in 1 .. n |-> StringValue(<< "t" >>) ] \o tail

TagTails ==
  { << >>, << StringValue(<< >>) >>, << StringValue(<< " ", "b", " " >>) >>,
    << StringValue(Repeat("c", 50)) >>, << StringValue(Repeat("c", 51)) >>,
    << StringValue(<< " " >> \o Repeat("c", 50)) >>,
    << Number(50) >>, << Number(0) >>, << Null >> }

TagArrays == { TagItems(n, tail) : n \in 0 .. MaxTags, tail \in TagTails }

\* the items written one after the other with sep between them
RECURSIVE Join(_, _)
Join(pieces, sep) ==
  IF pieces = << >> THEN << >>
  ELSE IF Len(pieces) = 1 THEN Head(pieces)
  ELSE Head(pieces) \o sep \o Join(Tail(pieces), sep)

\* an item as JSON.stringify writes it
Json(item) ==
  CASE item.type = "string" -> << "\"" >> \o item.chars \o << "\"" >>
    [] item.type = "number" -> << Digits[item.tenths \div 10 + 1] >>
    [] OTHER -> << "n", "u", "l", "l" >>

\* the array as a JSON text
JsonText(items) ==
  << "[" >> \o Join([ k \in DOMAIN items |-> Json(items[k]) ], << ",", " " >>) \o << "]" >>

\* the array of strings as a comma-separated text
CommaText(items) == Join([ k \in DOMAIN items |-> items[k].chars ], << "," >>)

StringArrays ==
  { items \in TagArrays : \A k \in DOMAIN items : items[k].type = "string" }

TagValues ==
  { Undefined, Null, Number(0), Number(50), Boolean(TRUE) } \cup
  { Array(items) : items \in TagArrays } \cup
  { StringValue(<< " " >> \o JsonText(items)) : items \in TagArrays } \cup
  { StringValue(CommaText(items)) : items \in StringArrays } \cup
  { StringValue(<< "[", "x", ",", " ", "y", "]" >>),
    StringValue(<< "[", "\"", "x", "\"" >>),
    StringValue(<< "[", "0", "1", "]" >>),
    StringValue(<< "[", "\"", "x", "\"", "]", "z" >>) }

MetadataBodies ==
  { [ tags |-> t ] : t \in TagValues } \cup
  { [ title |-> StringValue(<< " ", "t" >>), description |-> StringValue(<< "d", " " >>),
      tags |-> t ] : t \in TagValues } \cup
  { [ title |-> x ] : x \in { Number(10), StringValue(Repeat("t", 200)),
                              StringValue(Repeat("t", 201)) } } \cup
  { [ description |-> x ] : x \in { Boolean(TRUE), StringValue(Repeat("d", 1000)),
                                    StringValue(Repeat("d", 1001)) } }

InitMetadata ==
  /\ InitServices(0, {}, 0, FALSE)
  /\ textChunker = TextChunker(NoOptions)
  /\ splitCall = NoSplit
  /\ embedBatch = IdleEmbedBatch
  /\ retention = IdleRetention
  /\ \E body \in MetadataBodies :
        request = NewRequest("documents", body, "validateDocumentMetadata")

NextMetadata == ValidateDocumentMetadata

SpecMetadata == InitMetadata /\ [][NextMetadata]_vars

\* the tags of the body as it was received
ReceivedTags == Field(request.received, "tags")

\* the entries of the tags received, before they are trimmed: the items of an
\* array, the items of a JSON array text, the pieces of a comma-separated text
TagEntries ==
  IF ReceivedTags.type = "array" THEN ReceivedTags.items
  ELSE LET trimmed == trim(ReceivedTags.chars)
       IN IF trimmed # << >> /\ Head(trimmed) = "[" /\ JSONparse(trimmed).ok
          THEN JSONparse(trimmed).value.items
          ELSE IF trimmed = << >> THEN << >>
          ELSE [ k \in DOMAIN splitComma(trimmed) |-> StringValue(splitComma(trimmed)[k]) ]

\* an entry that counts: not an empty string after trimming, not null or 0
Counts(entry) ==
  IF entry.type = "string" THEN trim(entry.chars) # << >> ELSE Truthy(entry)

\* C24: validateDocumentMetadata calls next only if the tags received as an
\* array, a comma-separated text or a JSON array text come to at most 10
\* entries, each a non-empty trimmed string of at most 50 characters, and it
\* has then stored exactly that list in req.body.tags; with more than 10 tags
\* it responds 400 and does not call next.
C24_TagsNormalized ==
  request.pc \in { "handler", "responded" } /\ ReceivedTags.type \in { "array", "string" } =>
     /\ request.nextCalls = 1 =>
           LET stored == request.body.tags.items
               kept == SelectSeq(TagEntries, Counts)
           IN /\ request.body.tags.type = "array"
              /\ Len(stored) <= 10
              /\ Len(stored) = Len(kept)
              /\ \A k \in DOMAIN stored :
                    /\ stored[k].type = "string"
                    /\ kept[k].type = "string"
                    /\ stored[k].chars = trim(kept[k].chars)
                    /\ stored[k].chars # << >>
                    /\ Len(stored[k].chars) <= 50
     /\ Len(TagEntries) > 10 =>
           request.status = 400 /\ request.responses = 1 /\ request.nextCalls = 0

\* ten plain tags and ' b ' arrived as a comma-separated text... one too many
\* is refused, so the witness has nine plain tags, ' b ' and the stored list
C24_Witness ==
  /\ request.pc = "handler"
  /\ ReceivedTags = StringValue(CommaText(TagItems(9, << StringValue(<< " ", "b", " " >>) >>)))
  /\ request.body.tags = Array(TagItems(9, << StringValue(<< "b" >>) >>))

(***************************************************************************)
(* Stage order of processQuery, checked under SpecQuery.                   *)
(***************************************************************************)
EmbeddingPcs == { "embedReq", "embedRetryWait", "embedStageWait" }
SearchPcs == { "searchReq", "searchStageWait" }
GenerationPcs == { "genReq", "genStageWait" }

\* C25: within an attempt of processQuery the stages run one after the other:
\* a search request is started only with the embedding of the query in hand
\* (from the provider or the cache, or kept through a retry of the search),
\* a generation request only after the search of this attempt has returned
\* fragments; while one stage has a request or a retry pending, the later
\* stages have not been entered.
C25_StageState ==
  \A c \in QueryCalls :
     /\ calls[c].pc \in EmbeddingPcs =>
           calls[c].stages = << "embedding" >> /\ calls[c].found = 0 - 1
     /\ calls[c].pc \in SearchPcs =>
           /\ calls[c].stages = << "embedding", "retrieving" >>
           /\ calls[c].queryEmbedding # NoEmbedding
           /\ calls[c].found = 0 - 1
     /\ calls[c].pc \in GenerationPcs =>
           /\ calls[c].stages = << "embedding", "retrieving", "synthesizing" >>
           /\ calls[c].found > 0
           /\ Len(calls[c].searchResults) = calls[c].found

C25_StageStep ==
  \A c \in DOMAIN calls :
     calls[c].kind = "query" /\ calls'[c].kind = "query" =>
        /\ calls[c].pc # "searchReq" /\ calls'[c].pc = "searchReq" =>
              \/ /\ calls[c].pc = "searchStageWait"
                 /\ calls'[c].queryEmbedding = calls[c].queryEmbedding
              \/ /\ calls[c].pc \notin SearchPcs \cup GenerationPcs
                 /\ MapHas(embeddingCache', generateCacheKey(cleanText(calls'[c].query)))
                 /\ calls'[c].queryEmbedding =
                       MapGet(embeddingCache', generateCacheKey(cleanText(calls'[c].query)))
        /\ calls[c].pc # "genReq" /\ calls'[c].pc = "genReq" =>
              /\ calls[c].pc \in { "searchReq", "genStageWait" }
              /\ calls'[c].found > 0
              /\ calls[c].pc = "genStageWait" =>
                    calls'[c].searchResults = calls[c].searchResults

C25_StagesInSequence == [] C25_StageState /\ [][C25_StageStep]_vars

\* a second attempt has gone through embedding and search again and has its
\* generation request pending
C25_Witness ==
  \E c \in QueryCalls :
     /\ calls[c].attempt = 2
     /\ calls[c].pc = "genReq"
     /\ calls[c].stages = << "embedding", "retrieving", "synthesizing" >>

(***************************************************************************)
(* SpecRetry: one processQuery call whose provider requests are counted    *)
(* stage by stage while the providers fail as often as they like.          *)
(***************************************************************************)
InitRetry == InitState(1, { FragmentD2 }, Unlimited, TRUE)

NextRetry ==
  \E c \in DOMAIN calls :
     \/ ProcessQuery(c, TextA, 5, NoArgument)
     \/ EmbeddingProviderResponds(c, ProviderEmbedding(calls[c].input))
     \/ \E message \in ProviderErrors : EmbeddingProviderFails(c, message)
     \/ EmbeddingRetryTimer(c)
     \/ EmbeddingStageTimer(c)
     \/ \E rows \in StoreAnswers(store, calls[c].where, calls[c].maxResults, DistanceChoices) :
           StoreResponds(c, rows)
     \/ \E message \in ProviderErrors : StoreFails(c, message)
     \/ SearchStageTimer(c)
     \/ \E response \in GenerationResponses : GenerationProviderResponds(c, response)
     \/ \E message \in ProviderErrors : GenerationProviderFails(c, message)
     \/ GenerationStageTimer(c)
     \/ BackoffTimer(c)

SpecRetry == InitRetry /\ [][NextRetry]_vars

\* C26: one processQuery call makes at most 3 x 3 = 9 provider requests for
\* any single stage, embedding, retrieval or generation.
C26_NineRequestsPerStage ==
  \A c \in QueryCalls :
     /\ calls[c].sent.embedding <= maxRetries * maxRetries
     /\ calls[c].sent.retrieval <= maxRetries * maxRetries
     /\ calls[c].sent.generation <= maxRetries * maxRetries

(***************************************************************************)
(* SpecEmbedRetry: direct generateEmbedding calls against a provider that  *)
(* fails as often as it likes.                                             *)
(***************************************************************************)
InitEmbedRetry == InitState(MaxEmbedCalls, {}, Unlimited, TRUE)

NextEmbedRetry ==
  \E c \in DOMAIN calls :
     \/ \E text \in { TextA, TextB } : GenerateEmbedding(c, text)
     \/ EmbeddingProviderResponds(c, ProviderEmbedding(calls[c].input))
     \/ EmbeddingProviderResponds(c, NoEmbedding)
     \/ \E message \in ProviderErrors : EmbeddingProviderFails(c, message)
     \/ EmbeddingRetryTimer(c)

SpecEmbedRetry == InitEmbedRetry /\ [][NextEmbedRetry]_vars

\* C27: one generateEmbedding call sends at most 3 requests to the provider;
\* a request after the first is sent only after a failure whose message has a
\* transient signature; a failure without one, and the 3rd failure, are thrown
\* to the caller as they are, with no further request and the cache unchanged.
C27_RequestBudget ==
  \A c \in EmbedCalls :
     /\ calls[c].embAttempt <= maxRetries
     /\ calls[c].sent.embedding = calls[c].embAttempt
     /\ calls[c].pc = "embedRetryWait" =>
           embeddingRetryable(calls[c].raised) /\ calls[c].embAttempt < maxRetries

C27_RequestStep ==
  \A c \in DOMAIN calls :
     calls[c].kind = "embed" /\ calls[c].pc # "idle" =>
        /\ calls'[c].sent.embedding # calls[c].sent.embedding =>
              /\ calls[c].pc = "embedRetryWait"
              /\ calls'[c].sent.embedding = calls[c].sent.embedding + 1
        /\ (calls[c].pc = "embedReq" /\ calls'[c].raised # calls[c].raised
              /\ (~ embeddingRetryable(calls'[c].raised)
                     \/ calls[c].embAttempt = maxRetries)) =>
              /\ calls'[c].pc = "thrown"
              /\ calls'[c].error = calls'[c].raised
        /\ calls[c].pc # "thrown" /\ calls'[c].pc = "thrown" =>
              /\ embeddingCache' = embeddingCache
              /\ providerLog'.requests = providerLog.requests
        /\ calls[c].pc = "thrown" => calls'[c] = calls[c]

C27_EmbeddingRetry == [] C27_RequestBudget /\ [][C27_RequestStep]_vars

\* with an embedding of another text in the cache, a call has thrown the
\* timeout of its 3rd request and the cache still holds that one entry
C27_Witness ==
  \E c, d \in EmbedCalls :
     /\ calls[c].pc = "thrown" /\ calls[c].embAttempt = maxRetries
     /\ calls[c].error = MsgTimeout
     /\ calls[d].pc = "returned" /\ calls[d].query # calls[c].query
     /\ MapHas(embeddingCache, generateCacheKey(cleanText(calls[d].query)))
     /\ ~ MapHas(embeddingCache, generateCacheKey(cleanText(calls[c].query)))

(***************************************************************************)
(* Fan-out of batchProcessQueries, checked under SpecBatch.                *)
(***************************************************************************)
BatchCalls == { c \in DOMAIN calls : calls[c].via = "batch" /\ calls[c].pc # "idle" }

\* the sub-batch of the k-th query, counted from 0
SubBatchOf(k) == (k - 1) \div batchSize

\* C28: at most 3 processQuery calls of a batchProcessQueries call are in
\* flight at any time, and a query of sub-batch k+1 is started only when every
\* query of sub-batch k has settled, with a result or with an error.
C28_SubBatchesInTurn ==
  /\ Cardinality({ c \in BatchCalls : InFlight(calls[c]) }) <= batchSize
  /\ \A c \in BatchCalls :
        \A d \in DOMAIN batch.queries :
           SubBatchOf(d) < SubBatchOf(c) => Settled(calls[d])

\* the 4th query is in flight after the three of the first sub-batch have
\* settled, one of them with an error
C28_Witness ==
  /\ batchSize + 1 \in BatchCalls
  /\ InFlight(calls[batchSize + 1])
  /\ \E d \in 1 .. batchSize : calls[d].pc = "thrown"
  /\ \E d \in 1 .. batchSize : calls[d].pc = "returned"

(***************************************************************************)
(* EmbeddingService.generateEmbeddings (part_005, lines 103-139).          *)
(***************************************************************************)
embeddingBatchSize == 5
MsgNoTexts == <<"T","e","x","t","s"," ","m","u","s","t"," ","b","e"," ","a"," ","n","o","n","-","e","m","p","t","y"," ","a","r","r","a","y">>

\* batch.map(text => this.generateEmbedding(text)): the calls first .. last
\* are started one after the other, each up to its first await
RECURSIVE StartEmbeddings(_, _, _, _, _)
StartEmbeddings(w, first, last, texts, time) ==
  IF first > last THEN w
  ELSE StartEmbeddings(
         CallGenerateEmbedding(
           [ w EXCEPT !.calls[first] =
               NewCall("embed", "embeddings", texts[first], 5, None, NoArgument) ],
           first, time),
         first + 1, last, texts, time)

LastOfEmbeddingBatch(i, texts) == Min(i + embeddingBatchSize, Len(texts))

\* a variant that takes the embeddings in the order the calls settled
BatchEmbeddingsAsSettled(first, last) ==
  [ k \in 1 .. (last - first + 1) |-> calls[SettledOrder(first, last)[k]].result.embedding ]
\* what Promise.all resolves with: the embeddings of the calls first .. last in
\* the order of the sub-batch (lines 116-119)
BatchEmbeddings(first, last) ==
  [ k \in 1 .. (last - first + 1) |-> calls[first + k - 1].result.embedding ]

\* the first promise of the sub-batch that rejected
FirstRejected(first, last) ==
  LET order == SelectSeq(SettledOrder(first, last), LAMBDA c : calls[c].pc = "thrown")
  IN order[1]

\* a caller invokes embeddingService.generateEmbeddings(texts): lines 104-118,
\* up to the await of the first sub-batch
GenerateEmbeddings(texts) ==
  /\ embedBatch.pc = "idle"
  /\ IF Len(texts) = 0
     THEN /\ embedBatch' = [ embedBatch EXCEPT !.pc = "thrown", !.error = MsgNoTexts ]
          /\ UNCHANGED << calls, embeddingCache, providerLog, queryHistory,
                          performanceMetrics, nextId, settled >>
     ELSE /\ embedBatch' = [ embedBatch EXCEPT !.pc = "running", !.texts = texts ]
          /\ Commit(StartEmbeddings(World, 1, LastOfEmbeddingBatch(0, texts), texts, now))
  /\ UNCHANGED << batch, store, textChunker, splitCall, now, historyReply, faultsLeft,
                  request, retention >>

\* every promise of the sub-batch has fulfilled: Promise.all resolves, the
\* embeddings are pushed (line 119) and the call pauses or returns
EmbeddingsSubBatchResolved ==
  /\ embedBatch.pc = "running"
  /\ LET first == embedBatch.i + 1
         last == LastOfEmbeddingBatch(embedBatch.i, embedBatch.texts)
         embeddings == embedBatch.results \o BatchEmbeddings(first, last)
     IN /\ \A c \in first .. last : calls[c].pc = "returned"
        /\ embedBatch' =
              [ embedBatch EXCEPT
                  !.results = embeddings,
                  !.pc = IF embedBatch.i + embeddingBatchSize < Len(embedBatch.texts)
                         THEN "pause" ELSE "returned" ]
  /\ UNCHANGED << calls, batch, embeddingCache, providerLog, store, textChunker, splitCall,
                  queryHistory, performanceMetrics, now, nextId, settled, historyReply,
                  faultsLeft, request, retention >>

\* a promise of the sub-batch has rejected: Promise.all rejects with its
\* error and generateEmbeddings rethrows it (lines 132-137)
EmbeddingsSubBatchRejected ==
  /\ embedBatch.pc = "running"
  /\ LET first == embedBatch.i + 1
         last == LastOfEmbeddingBatch(embedBatch.i, embedBatch.texts)
     IN /\ \E c \in first .. last : calls[c].pc = "thrown"
        /\ embedBatch' = [ embedBatch EXCEPT
                             !.pc = "thrown",
                             !.error = calls[FirstRejected(first, last)].error ]
  /\ UNCHANGED << calls, batch, embeddingCache, providerLog, store, textChunker, splitCall,
                  queryHistory, performanceMetrics, now, nextId, settled, historyReply,
                  faultsLeft, request, retention >>

\* the pause between sub-batches ends (line 122): the next sub-batch starts
EmbeddingsPauseTimer ==
  /\ embedBatch.pc = "pause"
  /\ embedBatch' = [ embedBatch EXCEPT !.pc = "running", !.i = @ + embeddingBatchSize ]
  /\ Commit(StartEmbeddings(World, embedBatch.i + embeddingBatchSize + 1,
                            LastOfEmbeddingBatch(embedBatch.i + embeddingBatchSize,
                                                 embedBatch.texts),
                            embedBatch.texts, now))
  /\ UNCHANGED << batch, store, textChunker, splitCall, now, historyReply, faultsLeft,
                  request, retention >>

(***************************************************************************)
(* SpecEmbeddings: one generateEmbeddings call over lists of texts, some   *)
(* with a repeated or an empty text, and a limited number of failures.     *)
(***************************************************************************)
MaxEmbedTexts == 6

\* n distinct texts
DistinctTexts(n) == [ k \in 1 .. n |-> << LowerLetters[k] >> ]

\* no text, one sub-batch and two sub-batches of distinct texts; two
\* sub-batches with a text repeated in other spacing, and with an empty text
\* in the first or in the second sub-batch
EmbeddingsInputs ==
  { DistinctTexts(n) : n \in { 0, MaxEmbedTexts - 1, MaxEmbedTexts } }
    \cup { [ DistinctTexts(MaxEmbedTexts) EXCEPT ![2] = TextASpaced ] }
    \cup { [ DistinctTexts(MaxEmbedTexts) EXCEPT ![n] = TextBlank ] :
             n \in { 1, MaxEmbedTexts } }

InitEmbeddings == InitState(MaxEmbedTexts, {}, MaxFaults, FALSE)

NextEmbeddings ==
  \/ \E texts \in EmbeddingsInputs : GenerateEmbeddings(texts)
  \/ EmbeddingsSubBatchResolved
  \/ EmbeddingsSubBatchRejected
  \/ EmbeddingsPauseTimer
  \/ \E c \in DOMAIN calls :
        \/ EmbeddingProviderResponds(c, ProviderEmbedding(calls[c].input))
        \/ \E message \in { MsgTimeout, MsgUnauthorized } : EmbeddingProviderFails(c, message)
        \/ EmbeddingRetryTimer(c)

SpecEmbeddings == InitEmbeddings /\ [][NextEmbeddings]_vars

EmbeddingsCalls ==
  { c \in DOMAIN calls : calls[c].via = "embeddings" /\ calls[c].pc # "idle" }

\* C29: when generateEmbeddings(texts) returns, its list is as long as texts
\* and its i-th element is the embedding of texts[i], in whatever order the
\* calls of a sub-batch of 5 completed; when the embedding of one text has
\* failed the call does not return a list: it fails.
C29_ReturnsInOrder ==
  /\ embedBatch.pc = "returned" =>
        /\ Len(embedBatch.results) = Len(embedBatch.texts)
        /\ \A k \in DOMAIN embedBatch.texts :
              embedBatch.results[k] =
                 ProviderEmbedding(truncateText(cleanText(embedBatch.texts[k])))
  /\ \A c \in EmbeddingsCalls :
        calls[c].pc = "thrown" => embedBatch.pc \in { "running", "thrown" }

C29_FailureStep ==
  /\ (embedBatch.pc = "running" /\ embedBatch' # embedBatch
        /\ \E c \in EmbeddingsCalls : calls[c].pc = "thrown") =>
        embedBatch'.pc = "thrown" /\ embedBatch'.error # << >>
  /\ embedBatch.pc = "thrown" => embedBatch' = embedBatch

C29_OrderedOrFailed == [] C29_ReturnsInOrder /\ [][C29_FailureStep]_vars

\* six texts, two sub-batches: the call has returned although the first text's
\* embedding arrived last in its sub-batch, after a retry
C29_Witness ==
  /\ embedBatch.pc = "returned"
  /\ Len(embedBatch.texts) = MaxEmbedTexts
  /\ SettledOrder(1, embeddingBatchSize)[embeddingBatchSize] = 1
  /\ calls[1].embAttempt = 2

(***************************************************************************)
(* Retention: what ingestion stores and what the cleanup job deletes       *)
(* (documentService.js lines 70-92, vectorService.js lines 41-57).         *)
(***************************************************************************)
retentionDays == 7
hoursPerDay == 24

TwoDigits(n) == << Digits[(n \div 10) + 1], Digits[(n % 10) + 1] >>

\* Date.prototype.toISOString for a time of January 1970, the clock counting
\* hours from its first midnight: 1970-01-DDTHH:00:00.000Z
toISOString(hours) ==
  << "1", "9", "7", "0", "-", "0", "1", "-" >> \o TwoDigits((hours \div hoursPerDay) + 1)
    \o << "T" >> \o TwoDigits(hours % hoursPerDay)
    \o << ":", "0", "0", ":", "0", "0", ".", "0", "0", "0", "Z" >>

\* lines 70-90 of processDocumentBuffer: the documents handed to addDocuments
\* for chunkCount chunks, with the metadata the store is asked about
processDocumentBuffer(documentId, chunkCount, createdAt) ==
  LET expiresAt == createdAt + retentionDays * hoursPerDay
  IN { [ id |-> << documentId, "-chunk-", index >>,
         metadata |-> [ documentId |-> documentId, chunkIndex |-> index,
                        expiresAt |-> toISOString(expiresAt),
                        expiresAtMs |-> expiresAt ] ] : index \in 0 .. chunkCount - 1 }

\* uuidv4(): the n-th fresh document id
uuidv4(n) == << "u", Digits[n + 1] >>

\* an upload reaches line 70 with its chunks embedded: the documents are built
\* and collection.add is awaited (addDocuments, lines 92-97)
ProcessDocumentBuffer(chunkCount) ==
  /\ retention.documents < MaxDocuments
  /\ retention' =
        [ retention EXCEPT
            !.documents = @ + 1,
            !.adding = @ \cup { processDocumentBuffer(uuidv4(retention.documents + 1),
                                                      chunkCount, now) } ]
  /\ UNCHANGED << calls, batch, embeddingCache, providerLog, store, queryHistory,
                  performanceMetrics, now, nextId, settled, historyReply, faultsLeft,
                  textChunker, splitCall, request, embedBatch >>

\* the store carries out collection.add
StoreAdds(documents) ==
  /\ documents \in retention.adding
  /\ store' = store \cup documents
  /\ retention' = [ retention EXCEPT !.adding = @ \ { documents } ]
  /\ UNCHANGED << calls, batch, embeddingCache, providerLog, queryHistory,
                  performanceMetrics, now, nextId, settled, historyReply, faultsLeft,
                  textChunker, splitCall, request, embedBatch >>

\* a variant of the where-clause that compares with today's date alone
SweepWhereDate(nowIso) == [ expiresAt |-> Lt(SubSeq(nowIso, 1, 10)) ]
\* the where-clause of deleteExpiredChunks (line 52)
SweepWhere(nowIso) == [ expiresAt |-> Lt(nowIso) ]

\* the interval timer of startCleanupJob fires: deleteExpiredChunks up to its
\* await of collection.delete (lines 48-52)
CleanupTimerFires ==
  /\ retention.cleanupTimer /\ retention.collection
  /\ retention' =
        [ retention EXCEPT
            !.deleting = @ \cup { [ where |-> SweepWhere(toISOString(now)), at |-> now ] } ]
  /\ UNCHANGED << calls, batch, embeddingCache, providerLog, store, queryHistory,
                  performanceMetrics, now, nextId, settled, historyReply, faultsLeft,
                  textChunker, splitCall, request, embedBatch >>

\* the store carries out collection.delete of a sweep (line 53)
StoreDeletes(sweep) ==
  /\ sweep \in retention.deleting
  /\ store' = { f \in store : ~ Matches(f, sweep.where) }
  /\ retention' = [ retention EXCEPT
                      !.deleting = @ \ { sweep },
                      !.lastSweep = "deleted" ]
  /\ UNCHANGED << calls, batch, embeddingCache, providerLog, queryHistory,
                  performanceMetrics, now, nextId, settled, historyReply, faultsLeft,
                  textChunker, splitCall, request, embedBatch >>

\* a variant of the sweep without its try/catch and without the catch of the
\* timer's callback: the error leaves the callback and the process stops
StoreFailsDeleteUncaught(sweep) ==
  /\ sweep \in retention.deleting
  /\ retention' = [ retention EXCEPT
                      !.deleting = {}, !.lastSweep = "failed",
                      !.escaped = TRUE, !.cleanupTimer = FALSE ]
  /\ UNCHANGED << calls, batch, embeddingCache, providerLog, store, queryHistory,
                  performanceMetrics, now, nextId, settled, historyReply, faultsLeft,
                  textChunker, splitCall, request, embedBatch >>
\* collection.delete of a sweep fails: the error is logged (lines 54-56, and
\* the catch of line 44) and nothing else happens
StoreFailsDelete(sweep) ==
  /\ sweep \in retention.deleting
  /\ retention' = [ retention EXCEPT
                      !.deleting = @ \ { sweep },
                      !.lastSweep = "failed" ]
  /\ UNCHANGED << calls, batch, embeddingCache, providerLog, store, queryHistory,
                  performanceMetrics, now, nextId, settled, historyReply, faultsLeft,
                  textChunker, splitCall, request, embedBatch >>

(***************************************************************************)
(* SpecRetention: a store that holds the fragments of earlier uploads,     *)
(* about to expire, while documents are uploaded, the clock advances and   *)
(* the cleanup timer fires.  The timer and the clock are not held back for *)
(* ever, and the store does not fail every delete request.                 *)
(***************************************************************************)

\* uploads of 7 days before hour 1 and hour 2
EarlierUploads ==
  processDocumentBuffer(<< "d", "1" >>, 2, 1 - retentionDays * hoursPerDay)
    \cup processDocumentBuffer(<< "d", "2" >>, 1, 2 - retentionDays * hoursPerDay)

InitRetention ==
  /\ InitServices(0, EarlierUploads, Unlimited, FALSE)
  /\ textChunker = TextChunker(NoOptions)
  /\ splitCall = NoSplit
  /\ request = NoRequest
  /\ embedBatch = IdleEmbedBatch
  /\ retention = InitializedRetention

Sweeps == \E sweep \in retention.deleting : StoreDeletes(sweep)

NextRetention ==
  \/ ProcessDocumentBuffer(1)
  \/ \E documents \in retention.adding : StoreAdds(documents)
  \/ CleanupTimerFires
  \/ Sweeps
  \/ \E sweep \in retention.deleting : StoreFailsDelete(sweep)
  \/ Tick

SpecRetention ==
  /\ InitRetention /\ [][NextRetention]_vars
  /\ WF_vars(CleanupTimerFires) /\ WF_vars(Tick) /\ SF_vars(Sweeps)

\* the expiry time of a fragment has passed at the given time
ExpiredAt(f, time) == f.metadata.expiresAtMs < time

C30_SameExpiry ==
  /\ \A f \in store : f.metadata.expiresAt = toISOString(f.metadata.expiresAtMs)
  /\ \A f \in store, sweep \in retention.deleting :
        /\ Matches(f, sweep.where) <=> ExpiredAt(f, sweep.at)
        /\ Matches(f, sweep.where) => ~ Matches(f, WhereClause(sweep.at, NoFilter))

C30_SweepStep ==
  \A sweep \in retention.deleting \ retention'.deleting :
     IF retention'.lastSweep = "deleted"
     THEN store' = { f \in store : ~ ExpiredAt(f, sweep.at) }
     ELSE store' = store

ExpiredStored == \E f \in store : ExpiredAt(f, now)

InitSweep ==
  /\ InitServices(MaxSearchCalls, EarlierUploads, Unlimited, FALSE)
  /\ textChunker = TextChunker(NoOptions)
  /\ splitCall = NoSplit
  /\ request = NoRequest
  /\ embedBatch = IdleEmbedBatch
  /\ retention = InitializedRetention

NextSweep ==
  \/ \E c \in DOMAIN calls :
        \/ SearchSimilar(c, ProviderEmbedding(TextA), 5, NoFilter)
        \/ \E rows \in StoreAnswers(store, calls[c].where, calls[c].maxResults, { 5 }) :
              StoreResponds(c, rows)
        \/ StoreFails(c, MsgUnavailable)
  \/ CleanupTimerFires
  \/ \E sweep \in retention.deleting : StoreDeletes(sweep)
  \/ \E sweep \in retention.deleting : StoreFailsDelete(sweep)
  \/ Tick

SpecSweep == InitSweep /\ [][NextSweep]_vars

\* C31: an error of the store during a retention sweep goes no further than
\* the sweep: it does not leave deleteExpiredChunks or the timer's callback,
\* the timer stays armed so that later sweeps run, and the searches under way
\* and the fragments they can find are as they were.
C31_TimerArmed == ~ retention.escaped /\ retention.cleanupTimer

C31_FailedSweepStep ==
  (retention.lastSweep # retention'.lastSweep \/ retention.deleting # retention'.deleting)
     /\ retention'.lastSweep = "failed" /\ Cardinality(retention'.deleting) < Cardinality(retention.deleting) =>
        /\ store' = store
        /\ calls' = calls
        /\ settled' = settled
        /\ \A c \in DOMAIN calls :
              calls[c].pc = "searchReq" =>
                 StoreAnswers(store', calls'[c].where, calls'[c].maxResults, { 5 })
                    = StoreAnswers(store, calls[c].where, calls[c].maxResults, { 5 })

C31_SweepErrorContained == [] C31_TimerArmed /\ [][C31_FailedSweepStep]_vars

\* a sweep has failed while a search was under way; the search has returned
\* fragments since, the store is whole and the timer has fired again
C31_Witness ==
  /\ retention.lastSweep = "failed"
  /\ store = EarlierUploads
  /\ now = MaxNow
  /\ \E sweep \in retention.deleting : sweep.at = MaxNow
  /\ \E c \in SearchCalls : calls[c].pc = "returned" /\ calls[c].result.sources # << >>

(***************************************************************************)
(* toPrimitiveMetadata and addDocuments (vectorService.js, lines 5-20 and  *)
(* 59-97).                                                                 *)
(***************************************************************************)
DateValue(hours) == [ type |-> "date", hours |-> hours ]
ObjectValue(fields) == [ type |-> "object", fields |-> fields ]

IsPrimitive(v) == v.type \in { "null", "string", "number", "boolean" }

\* String(v) of a primitive, as Array.prototype.join writes an element; null
\* and undefined are written as the empty string
ToText(v) ==
  CASE v.type = "string" -> v.chars
    [] v.type = "number" -> << Digits[v.tenths \div 10 + 1] >>
    [] v.type = "boolean" -> IF v.value THEN << "t", "r", "u", "e" >> ELSE << "f", "a", "l", "s", "e" >>
    [] OTHER -> << >>

\* the keys of an object in the order of Object.entries
RECURSIVE KeysOf(_)
KeysOf(fields) ==
  IF DOMAIN fields = {} THEN << >>
  ELSE LET k == CHOOSE x \in DOMAIN fields : TRUE
       IN << k >> \o KeysOf([ y \in DOMAIN fields \ { k } |-> fields[y] ])

\* JSON.stringify(v) as a text; undefined has none, and is written null inside
\* an array and left out of an object
RECURSIVE JsonOf(_)
JsonOf(v) ==
  CASE v.type = "string" -> << "\"" >> \o v.chars \o << "\"" >>
    [] v.type \in { "number", "boolean" } -> ToText(v)
    [] v.type = "date" -> << "\"" >> \o toISOString(v.hours) \o << "\"" >>
    [] v.type = "array" ->
         << "[" >> \o Join([ k \in DOMAIN v.items |-> JsonOf(v.items[k]) ], << "," >>)
           \o << "]" >>
    [] v.type = "object" ->
         LET keys == SelectSeq(KeysOf(v.fields), LAMBDA k : v.fields[k].type # "undefined")
         IN << "{" >>
              \o Join([ i \in DOMAIN keys |->
                          << "\"", keys[i], "\"", ":" >> \o JsonOf(v.fields[keys[i]]) ],
                      << "," >>)
              \o << "}" >>
    [] OTHER -> << "n", "u", "l", "l" >>

\* JSON.stringify(v): a string, or undefined for undefined
JSONstringify(v) == IF v.type = "undefined" THEN Undefined ELSE StringValue(JsonOf(v))

\* line 14: value.map(v => primitive ? v : JSON.stringify(v)).join(',')
JoinArray(items) ==
  StringValue(Join([ k \in DOMAIN items |->
                       IF IsPrimitive(items[k]) THEN ToText(items[k])
                       ELSE ToText(JSONstringify(items[k])) ], << "," >>))

\* toPrimitiveMetadata (lines 5-20) on the fields of an object
toPrimitiveMetadata(metadata) ==
  [ key \in DOMAIN metadata |->
      LET value == metadata[key]
      IN IF IsPrimitive(value) THEN value
         ELSE IF value.type = "date" THEN StringValue(toISOString(value.hours))
         ELSE IF value.type = "array" THEN JoinArray(value.items)
         ELSE JSONstringify(value) ]

\* addDocuments for one document (lines 76-97): its metadata is
\* { text, source, timestamp, ...doc.metadata } made primitive, and
\* collection.add is awaited with it
AddDocuments(doc) ==
  /\ retention.collection
  /\ retention.metadatas = << >>
  /\ retention' =
        [ retention EXCEPT
            !.metadatas =
               << toPrimitiveMetadata(
                    [ k \in { "text", "source", "timestamp" } \cup DOMAIN doc.metadata |->
                        IF k \in DOMAIN doc.metadata THEN doc.metadata[k]
                        ELSE IF k = "text" THEN StringValue(doc.text)
                        ELSE IF k = "source" THEN StringValue(doc.source)
                        ELSE StringValue(toISOString(now)) ]) >> ]
  /\ UNCHANGED << calls, batch, embeddingCache, providerLog, store, queryHistory,
                  performanceMetrics, now, nextId, settled, historyReply, faultsLeft,
                  textChunker, splitCall, request, embedBatch >>

(***************************************************************************)
(* SpecPrimitive: addDocuments for documents whose metadata hold values of *)
(* every type, as the upload controller and other callers build them.      *)
(***************************************************************************)
MetadataValues ==
  { Undefined, Null, StringValue(<< "a" >>), StringValue(<< >>), Number(10), Number(0),
    Boolean(TRUE), Boolean(FALSE), DateValue(1),
    Array(<< >>), Array(<< StringValue(<< "a" >>), StringValue(<< "b" >>) >>),
    Array(<< Number(10), Null, Undefined, Array(<< Boolean(TRUE) >>) >>),
    ObjectValue([ a |-> Number(10), b |-> Undefined ]),
    ObjectValue([ a |-> Array(<< StringValue(<< "a" >>), Undefined >>) ]) }

\* title is as uploadDocument reads it from the body: undefined when the
\* form has no title
AddInputs ==
  { [ id |-> "id", text |-> TextA, source |-> << "f" >>,
      metadata |-> [ title |-> title, tags |-> tags ] ] :
      title \in MetadataValues, tags \in MetadataValues }

InitPrimitive ==
  /\ InitServices(0, {}, 0, FALSE)
  /\ textChunker = TextChunker(NoOptions)
  /\ splitCall = NoSplit
  /\ request = NoRequest
  /\ embedBatch = IdleEmbedBatch
  /\ retention = InitializedRetention

NextPrimitive == \E doc \in AddInputs : AddDocuments(doc)

SpecPrimitive == InitPrimitive /\ [][NextPrimitive]_vars

\* C32: every value of the metadata that addDocuments hands to the store is a
\* string, a number, a boolean or null, whatever the values it was given.
C32_PrimitiveValues ==
  \A i \in DOMAIN retention.metadatas :
     \A key \in DOMAIN retention.metadatas[i] : IsPrimitive(retention.metadatas[i][key])

(***************************************************************************)
(* SpecTruncate: generateEmbedding for texts about as long as maxLength,   *)
(* with a sentence end, a blank or nothing near the limit.                 *)
(***************************************************************************)
MaxTail == 3

TruncateSeparators == { << >>, << "." >>, << " " >>, << "!", "?" >>, << ".", " " >> }

TruncateInputs ==
  { Repeat("a", n) \o sep \o Repeat("b", m) :
      n \in (maxLength - 2) .. (maxLength + 1), sep \in TruncateSeparators,
      m \in 0 .. MaxTail }

InitTruncate == InitState(1, {}, 0, FALSE)

NextTruncate ==
  \E c \in DOMAIN calls :
     \/ \E text \in TruncateInputs : GenerateEmbedding(c, text)
     \/ EmbeddingProviderResponds(c, ProviderEmbedding(calls[c].input))

SpecTruncate == InitTruncate /\ [][NextTruncate]_vars

\* C33: for every cleaned text longer than maxLength, what truncateText
\* returns, the text sent to the provider, is not empty and at most maxLength
\* characters long.
C33_TruncatedLength ==
  \A c \in EmbedCalls :
     Len(cleanText(calls[c].query)) > maxLength /\ calls[c].pc = "embedReq" =>
        /\ calls[c].input = truncateText(cleanText(calls[c].query))
        /\ calls[c].input # << >>
        /\ Len(calls[c].input) <= maxLength

(***************************************************************************)
(* SpecHistoryLimit: getQueryHistory with every limit on a short history   *)
(* whose entries are of several ages, while queries are saved and time     *)
(* passes.                                                                 *)
(***************************************************************************)
MaxPast == 3     \* entries saved before the first state
MaxLimit == 3    \* the limits asked for

\* the times of earlier saves: expired at 0, at 1, at 2, and fresh
PastTimes == { 0 - historyTTL - 1, 0 - historyTTL, 1 - historyTTL, 0 }

\* the history after saves at the given times
RECURSIVE SavedAt(_, _)
SavedAt(times, k) ==
  IF k = 0 THEN << >>
  ELSE saveQueryHistory(SavedAt(times, k - 1), k, TextB, PastResult, 0, times[k])

HistoryLimits == 1 .. MaxLimit

InitHistoryLimit ==
  \E n \in 0 .. MaxPast :
     \E times \in [ 1 .. n -> PastTimes ] :
        /\ \A k \in 1 .. n - 1 : times[k] <= times[k + 1]
        /\ calls = [ c \in 1 .. 1 |-> IdleCall ]
        /\ textChunker = TextChunker(NoOptions)
        /\ splitCall = NoSplit
        /\ request = NoRequest
        /\ embedBatch = IdleEmbedBatch
        /\ retention = IdleRetention
        /\ batch = IdleBatch
        /\ embeddingCache = << >>
        /\ providerLog = [ observe |-> FALSE, requests |-> [ k \in {} |-> 0 ], fetched |-> {} ]
        /\ store = { FragmentD2 }
        /\ queryHistory = SavedAt(times, n)
        /\ performanceMetrics = InitialMetrics
        /\ now = 0
        /\ nextId = n + 1
        /\ settled = << >>
        /\ historyReply = NoReply
        /\ faultsLeft = 0

NextHistoryLimit ==
  \/ \E c \in DOMAIN calls :
        \/ ProcessQuery(c, TextA, 5, NoArgument)
        \/ EmbeddingProviderResponds(c, ProviderEmbedding(calls[c].input))
        \/ \E rows \in StoreAnswers(store, calls[c].where, calls[c].maxResults, { 5 }) :
              StoreResponds(c, rows)
        \/ GenerationProviderResponds(c, Response(AnswerText, << >>, << >>, << >>, 7))
  \/ \E limit \in HistoryLimits : getQueryHistory(limit)
  \/ Tick

SpecHistoryLimit == InitHistoryLimit /\ [][NextHistoryLimit]_vars

\* C34: a getQueryHistory(limit) call with limit >= 1 leaves in the history
\* exactly the entries not older than the 30 days, in their order; it returns
\* the min(limit, remaining) newest of them, newest first, and its total is
\* the number of entries that remain.
C34_HistoryStep ==
  \A limit \in HistoryLimits :
     getQueryHistory(limit) =>
        LET queries == historyReply'.queries
        IN /\ queryHistory' =
                 SelectSeq(queryHistory, LAMBDA e : now - e.value.timestamp <= historyTTL)
           /\ Len(queries) <= limit
           /\ Len(queries) = Min(limit, Len(queryHistory'))
           /\ \A i, j \in DOMAIN queries : i < j => queries[i].timestamp >= queries[j].timestamp
           /\ \A i, j \in DOMAIN queries : i # j => queries[i].id # queries[j].id
           /\ \A i \in DOMAIN queries :
                 \E k \in DOMAIN queryHistory' : queryHistory'[k].value = queries[i]
           /\ \A k \in DOMAIN queryHistory' :
                 (\A i \in DOMAIN queries : queries[i] # queryHistory'[k].value) =>
                    \A i \in DOMAIN queries :
                       queries[i].timestamp >= queryHistory'[k].value.timestamp
           /\ historyReply'.total = Len(queryHistory')
           /\ historyReply'.limit = limit

C34_HistoryLimit == [][C34_HistoryStep]_vars

C34_Witness ==
  /\ historyReply.limit = 2
  /\ historyReply.total = 3
  /\ Len(historyReply.queries) = 2
  /\ historyReply.queries[1].timestamp > historyReply.queries[2].timestamp
  /\ Len(queryHistory) = 3
  /\ queryHistory[1].key = 2

(***************************************************************************)
(* Coverage of the cleaned text by the chunks of splitText (SpecChunk).    *)
(***************************************************************************)
\* the characters of the chunks, one chunk after the other
RECURSIVE ChunkCharacters(_)
ChunkCharacters(chunks) ==
  IF chunks = << >> THEN << >> ELSE Head(chunks) \o ChunkCharacters(Tail(chunks))

Content(str) == SelectSeq(str, LAMBDA ch : ~ IsSpace(ch))

\* the characters of part are found in whole, one after the other in their order
RECURSIVE FoundInOrder(_, _)
FoundInOrder(part, whole) ==
  IF part = << >> THEN TRUE
  ELSE IF whole = << >> THEN FALSE
  ELSE IF Head(part) = Head(whole) THEN FoundInOrder(Tail(part), Tail(whole))
  ELSE FoundInOrder(part, Tail(whole))

\* C35: for every chunker with 0 < overlapSize < maxChunkSize and every text,
\* the characters of the cleaned text other than whitespace are all found in
\* the chunks splitText returns, in the order of the text: reading the chunks
\* one after the other, no character of the text is missing.
C35_NoContentDropped ==
  Returned /\ SizesInRange /\ splitCall.text.type = "string" =>
     FoundInOrder(Content(chunkerCleanText(splitCall.text.chars)),
                  ChunkCharacters(splitCall.chunks))

(***************************************************************************)
(* SpecKeys: generateEmbedding calls, one after the other, for every short *)
(* text over a few letters; the provider answers each request with the     *)
(* embedding of the text it was sent.                                      *)
(***************************************************************************)
MaxKeyLen == 2

KeyAlphabet == { "A", "B", "a" }

KeyTexts == UNION { [ 1 .. n -> KeyAlphabet ] : n \in 1 .. MaxKeyLen }

InitKeys == InitState(2, {}, 0, FALSE)

NextKeys ==
  \E c \in DOMAIN calls :
     \/ \E text \in KeyTexts :
           /\ \A d \in DOMAIN calls : calls[d].pc \in { "idle", "returned" }
           /\ GenerateEmbedding(c, text)
     \/ EmbeddingProviderResponds(c, ProviderEmbedding(calls[c].input))

SpecKeys == InitKeys /\ [][NextKeys]_vars

\* C36: a generateEmbedding call that returns, from the cache or from the
\* provider, returns the provider's embedding of its own cleaned and
\* truncated text, whatever other texts were embedded before it.
C36_OwnEmbedding ==
  \A c \in EmbedCalls :
     calls[c].pc = "returned" =>
        calls[c].result =
           [ embedding |-> ProviderEmbedding(truncateText(cleanText(calls[c].query))) ]

(***************************************************************************)
(* DocumentService.processDocumentBuffer for a text file: extraction,      *)
(* chunking, generateEmbeddings, addDocuments.  The upload's progress is   *)
(* held in request.                                                        *)
(***************************************************************************)
\* lines 49-55: the replacements of line ends and tabs map whitespace to
\* whitespace, and /\s+/g then turns every run of whitespace into one blank
extractText(text) == trim(ReplaceBlankLines(CollapseWhitespace(text)))

IngestRequest(documentId) ==
  [ pc |-> "ingestEmbedding", stage |-> "embedding", documentId |-> documentId,
    textChunks |-> << >>, documents |-> {}, addCalls |-> 0 ]

\* a variant that gives chunk i the embedding of the chunk after it
ingestDocumentsShifted(documentId, textChunks, embeddings, createdAt) ==
  LET expiresAt == createdAt + retentionDays * hoursPerDay
  IN { [ id |-> << documentId, "-chunk-", index >>,
         text |-> textChunks[index + 1],
         embedding |-> embeddings[((index + 1) % Len(embeddings)) + 1],
         metadata |-> [ documentId |-> documentId, chunkIndex |-> index,
                        totalChunks |-> Len(textChunks),
                        expiresAt |-> toISOString(expiresAt),
                        expiresAtMs |-> expiresAt ] ] : index \in 0 .. Len(textChunks) - 1 }
\* lines 70-90 of processDocumentBuffer: textChunks.map((chunk, index) => ...)
ingestDocuments(documentId, textChunks, embeddings, createdAt) ==
  LET expiresAt == createdAt + retentionDays * hoursPerDay
  IN { [ id |-> << documentId, "-chunk-", index >>,
         text |-> textChunks[index + 1],
         embedding |-> embeddings[index + 1],
         metadata |-> [ documentId |-> documentId, chunkIndex |-> index,
                        totalChunks |-> Len(textChunks),
                        expiresAt |-> toISOString(expiresAt),
                        expiresAtMs |-> expiresAt ] ] : index \in 0 .. Len(textChunks) - 1 }

\* processDocumentBuffer(fileBuffer, 'x.txt') up to its await of
\* generateEmbeddings (lines 19-66)
IngestDocument(text) ==
  /\ request.pc = "none"
  /\ embedBatch.pc = "idle"
  /\ LET documentId == uuidv4(retention.documents + 1)
         extractedText == extractText(text)
         textChunks == splitText(textChunker, StringValue(extractedText))
         started == [ IngestRequest(documentId) EXCEPT !.textChunks = textChunks ]
     IN /\ retention' = [ retention EXCEPT !.documents = @ + 1 ]
        /\ IF extractedText = << >>
           THEN /\ request' = [ started EXCEPT !.pc = "ingestThrown", !.stage = "extract",
                                                !.textChunks = << >> ]
                /\ UNCHANGED << calls, embeddingCache, providerLog, queryHistory,
                                performanceMetrics, nextId, settled, embedBatch >>
           ELSE IF Len(textChunks) = 0
           THEN /\ request' = [ started EXCEPT !.pc = "ingestThrown", !.stage = "chunk" ]
                /\ UNCHANGED << calls, embeddingCache, providerLog, queryHistory,
                                performanceMetrics, nextId, settled, embedBatch >>
           ELSE /\ request' = started
                /\ embedBatch' = [ embedBatch EXCEPT !.pc = "running", !.texts = textChunks ]
                /\ Commit(StartEmbeddings(World, 1, LastOfEmbeddingBatch(0, textChunks),
                                          textChunks, now))
  /\ UNCHANGED << batch, store, textChunker, splitCall, now, historyReply, faultsLeft >>

\* generateEmbeddings has returned: lines 66-92 of processDocumentBuffer and
\* addDocuments up to its await of collection.add (vectorService.js:59-92)
IngestEmbedded ==
  /\ request.pc = "ingestEmbedding"
  /\ embedBatch.pc = "returned"
  /\ retention.collection
  /\ LET embeddings == embedBatch.results
         documents == ingestDocuments(request.documentId, request.textChunks,
                                      embeddings, now)
     IN IF Len(embeddings) # Len(request.textChunks)
        THEN /\ request' = [ request EXCEPT !.pc = "ingestThrown", !.stage = "mismatch" ]
             /\ UNCHANGED retention
        ELSE IF documents = {} \/ \E doc \in documents : doc.text = << >>
        THEN /\ request' = [ request EXCEPT !.pc = "ingestThrown", !.stage = "add",
                                             !.addCalls = @ + 1 ]
             /\ UNCHANGED retention
        ELSE /\ request' = [ request EXCEPT !.pc = "ingestAdding", !.stage = "store",
                                             !.documents = documents,
                                             !.addCalls = @ + 1 ]
             /\ retention' = [ retention EXCEPT !.adding = @ \cup { documents } ]
  /\ UNCHANGED << calls, batch, embeddingCache, providerLog, store, queryHistory,
                  performanceMetrics, now, nextId, settled, historyReply, faultsLeft,
                  textChunker, splitCall, embedBatch >>

\* generateEmbeddings has thrown: processDocumentBuffer logs and rethrows
\* (lines 108-112)
IngestEmbeddingFailed ==
  /\ request.pc = "ingestEmbedding"
  /\ embedBatch.pc = "thrown"
  /\ request' = [ request EXCEPT !.pc = "ingestThrown", !.stage = "embedding" ]
  /\ UNCHANGED << calls, batch, embeddingCache, providerLog, store, queryHistory,
                  performanceMetrics, now, nextId, settled, historyReply, faultsLeft,
                  textChunker, splitCall, embedBatch, retention >>

\* collection.add has resolved: addDocuments and processDocumentBuffer return
IngestAdded ==
  /\ request.pc = "ingestAdding"
  /\ request.documents \notin retention.adding
  /\ request' = [ request EXCEPT !.pc = "ingestReturned" ]
  /\ UNCHANGED << calls, batch, embeddingCache, providerLog, store, queryHistory,
                  performanceMetrics, now, nextId, settled, historyReply, faultsLeft,
                  textChunker, splitCall, embedBatch, retention >>

\* collection.add rejects: addDocuments and processDocumentBuffer rethrow
StoreFailsAdd(documents) ==
  /\ documents \in retention.adding
  /\ retention' = [ retention EXCEPT !.adding = @ \ { documents } ]
  /\ request' = IF request.pc = "ingestAdding" /\ request.documents = documents
                THEN [ request EXCEPT !.pc = "ingestThrown" ]
                ELSE request
  /\ UNCHANGED << calls, batch, embeddingCache, providerLog, store, queryHistory,
                  performanceMetrics, now, nextId, settled, historyReply, faultsLeft,
                  textChunker, splitCall, embedBatch >>

(***************************************************************************)
(* SpecIngest: one upload of a text file; a chunker of small sizes stands  *)
(* for the service's, the provider may fail one request, the store may     *)
(* fail the add.                                                           *)
(***************************************************************************)
IngestChunker == TextChunker([ maxChunkSize |-> 3, overlapSize |-> 1 ])

\* no content; one chunk; two chunks; three chunks, the second without a
\* character an embedding keeps; more chunks than one sub-batch embeds
IngestTexts ==
  { << " " >>, << "a" >>, << "a", "b", "c", "d" >>,
    << "a", "b", "#", "#", "#" >>,
    [ k \in 1 .. 2 * embeddingBatchSize + 3 |-> LowerLetters[k] ] }

IngestSlots ==
  LET counts == { Len(splitText(IngestChunker, StringValue(extractText(text)))) :
                    text \in IngestTexts }
  IN CHOOSE n \in counts : \A m \in counts : m <= n

InitIngest ==
  /\ InitServices(IngestSlots, {}, 1, FALSE)
  /\ textChunker = IngestChunker
  /\ splitCall = NoSplit
  /\ request = NoRequest
  /\ embedBatch = IdleEmbedBatch
  /\ retention = InitializedRetention

NextIngest ==
  \/ \E text \in IngestTexts : IngestDocument(text)
  \/ IngestEmbedded
  \/ IngestEmbeddingFailed
  \/ IngestAdded
  \/ \E documents \in retention.adding : StoreAdds(documents)
  \/ \E documents \in retention.adding : StoreFailsAdd(documents)
  \/ EmbeddingsSubBatchResolved
  \/ EmbeddingsSubBatchRejected
  \/ EmbeddingsPauseTimer
  \/ \E c \in DOMAIN calls :
        \/ EmbeddingProviderResponds(c, ProviderEmbedding(calls[c].input))
        \/ \E message \in { MsgTimeout, MsgUnauthorized } : EmbeddingProviderFails(c, message)
        \/ EmbeddingRetryTimer(c)

SpecIngest == InitIngest /\ [][NextIngest]_vars

Ingesting == request.pc \in { "ingestEmbedding", "ingestAdding", "ingestReturned", "ingestThrown" }
IngestEnded == request.pc \in { "ingestReturned", "ingestThrown" }

\* the fragments of the upload's document in the store
StoredOf(documentId) == { f \in store : f.metadata.documentId = documentId }

\* every chunk is in the given fragments once, chunk i with the i-th
\* embedding generateEmbeddings returned
AllChunksIn(fragments) ==
  /\ Cardinality(fragments) = Len(request.textChunks)
  /\ \A i \in DOMAIN request.textChunks :
        \E f \in fragments :
           /\ f.metadata.chunkIndex = i - 1
           /\ f.text = request.textChunks[i]
           /\ f.embedding = embedBatch.results[i]

\* no chunk, or an embedding failed: addDocuments is not called and the store
\* gets nothing of the document
NothingAdded ==
  Ingesting /\ (request.textChunks = << >> \/ embedBatch.pc = "thrown") =>
     /\ request.addCalls = 0
     /\ retention.adding = {}
     /\ StoredOf(request.documentId) = {}
     /\ request.pc \in { "ingestEmbedding", "ingestThrown" }

\* C37: an upload with no chunk or a failed embedding never calls
\* addDocuments and stores nothing; every other upload calls addDocuments
\* once, with all its chunks, chunk i with the i-th embedding, and the store
\* gets them by that one collection.add: it holds none of them before and all
\* of them after, and an upload that returns has all its chunks stored.  The
\* only upload that ends otherwise is one whose add the store rejected, and
\* it has stored nothing.
C37_AllOrNothing ==
  /\ NothingAdded
  /\ Ingesting => StoredOf(request.documentId) \in { {}, request.documents }
  /\ IngestEnded /\ request.textChunks # << >> /\ embedBatch.pc = "returned" =>
        /\ request.addCalls = 1
        /\ AllChunksIn(request.documents)
        /\ request.pc = "ingestReturned" => StoredOf(request.documentId) = request.documents
        /\ request.pc = "ingestThrown" =>
              request.stage = "store" /\ StoredOf(request.documentId) = {}

\* an upload of more chunks than one sub-batch has returned with its chunks
\* stored although one provider request had failed
C37_Witness ==
  /\ request.pc = "ingestReturned"
  /\ Len(request.textChunks) > embeddingBatchSize
  /\ faultsLeft = 0
  /\ AllChunksIn(StoredOf(request.documentId))

(***************************************************************************)
(* The empty-retrieval return of processQuery (SpecCount).                 *)
(***************************************************************************)
\* the calls that have returned the answer given when nothing was retrieved
EmptyRetrieval ==
  { c \in QueryCalls : calls[c].pc = "returned" /\ calls[c].found = 0 }

\* a step of call c, and of no other call, while c has retrieved nothing
StepWithoutRetrieval(c) ==
  /\ calls'[c] # calls[c]
  /\ \A d \in DOMAIN calls \ { c } : calls'[d] = calls[d]
  /\ calls'[c].found <= 0

\* C38: every step of a processQuery call that has retrieved nothing, the
\* step in which it returns the empty-retrieval answer included, leaves the
\* history and every field of the metrics as they are; where no call
\* retrieves anything the history stays empty and the metrics stay at zero.
C38_Step ==
  \A c \in DOMAIN calls :
     StepWithoutRetrieval(c) => UNCHANGED << queryHistory, performanceMetrics, nextId >>

C38_State ==
  (\A c \in QueryCalls : calls[c].found <= 0) /\ store = { FragmentExpired } =>
     queryHistory = << >> /\ performanceMetrics = InitialMetrics

C38_EmptyRetrievalUncounted == [] C38_State /\ [][C38_Step]_vars

C38_Witness ==
  /\ Cardinality(EmptyRetrieval) = MaxCountCalls
  /\ \A c \in EmptyRetrieval :
        calls[c].result.answer = NoInfoAnswer /\ calls[c].stages = << "embedding", "retrieving" >>
  /\ queryHistory = << >>
  /\ performanceMetrics = InitialMetrics

(***************************************************************************)
(* VectorService.initialize, reached lazily from searchSimilar, and        *)
(* startCleanupJob.                                                        *)
(***************************************************************************)
\* a variant of startCleanupJob without its test of cleanupTimer
startCleanupJobUnguarded(service) ==
  [ service EXCEPT !.cleanupTimer = TRUE, !.timers = @ + 1 ]
\* VectorService.startCleanupJob (lines 41-45)
startCleanupJob(service) ==
  IF service.cleanupTimer THEN service
  ELSE [ service EXCEPT !.cleanupTimer = TRUE, !.timers = @ + 1 ]

\* a caller invokes searchSimilar while this.collection is unset: the call
\* awaits initialize, which awaits getCollection (lines 114-118, 29-31)
SearchSimilarInitializes(c, queryEmbedding, maxResults, filter) ==
  /\ calls[c].pc = "idle"
  /\ ~ retention.collection
  /\ calls' = [ calls EXCEPT ![c] =
                  [ NewCall("search", "direct", << >>, maxResults, None, NoArgument)
                      EXCEPT !.queryEmbedding = queryEmbedding, !.filter = filter,
                             !.pc = "initializing", !.stages = << "initializing" >> ] ]
  /\ retention' = [ retention EXCEPT !.initializing = @ + 1 ]
  /\ UNCHANGED << batch, embeddingCache, providerLog, store, queryHistory,
                  performanceMetrics, now, nextId, settled, historyReply, faultsLeft,
                  textChunker, splitCall, request, embedBatch >>

\* getCollection resolves for call c: initialize sets the collection and the
\* client and calls startCleanupJob (lines 31-34), and searchSimilar goes on
\* to its await of collection.query
GetCollectionResolves(c) ==
  /\ calls[c].pc = "initializing"
  /\ retention' = startCleanupJob([ retention EXCEPT !.collection = TRUE,
                                                     !.initializing = @ - 1 ])
  /\ Commit(CallSearch(World, c, now))
  /\ UNCHANGED << batch, store, textChunker, splitCall, now, historyReply, faultsLeft,
                  request, embedBatch >>

\* getCollection rejects for call c: initialize and searchSimilar rethrow
\* (lines 35-38)
GetCollectionRejects(c, message) ==
  /\ calls[c].pc = "initializing"
  /\ Fault
  /\ retention' = [ retention EXCEPT !.initializing = @ - 1 ]
  /\ Commit(SearchThrow(World, c, message))
  /\ UNCHANGED << batch, store, textChunker, splitCall, now, historyReply,
                  request, embedBatch >>

(***************************************************************************)
(* SpecInitialize: searches that arrive before and after the collection is *)
(* set, while getCollection may fail and the cleanup timer fires.          *)
(***************************************************************************)
MaxInitCalls == 3

InitInitialize ==
  /\ InitServices(MaxInitCalls, { FragmentD2 }, 1, FALSE)
  /\ textChunker = TextChunker(NoOptions)
  /\ splitCall = NoSplit
  /\ request = NoRequest
  /\ embedBatch = IdleEmbedBatch
  /\ retention = IdleRetention

NextInitialize ==
  \/ \E c \in DOMAIN calls :
        \/ SearchSimilarInitializes(c, ProviderEmbedding(TextA), 5, NoFilter)
        \/ retention.collection /\ SearchSimilar(c, ProviderEmbedding(TextA), 5, NoFilter)
        \/ GetCollectionResolves(c)
        \/ GetCollectionRejects(c, MsgUnavailable)
        \/ \E rows \in StoreAnswers(store, calls[c].where, calls[c].maxResults, { 5 }) :
              StoreResponds(c, rows)
  \/ CleanupTimerFires
  \/ \E sweep \in retention.deleting : StoreDeletes(sweep)

SpecInitialize == InitInitialize /\ [][NextInitialize]_vars

\* the calls that went through initialize and found the collection
Initialized ==
  { c \in DOMAIN calls : /\ calls[c].stages # << >>
                         /\ calls[c].stages[1] = "initializing"
                         /\ calls[c].pc \in { "searchReq", "returned" } }

\* C39: whatever the number of searches that call initialize, one after the
\* other or while others still await getCollection, at most one cleanup timer
\* has been created, and a timer is created only when there is none.
C39_TimerState ==
  /\ retention.timers <= 1
  /\ retention.cleanupTimer <=> retention.timers = 1
  /\ Initialized # {} => retention.timers = 1

C39_TimerStep ==
  retention'.timers # retention.timers =>
     /\ retention.timers = 0 /\ retention'.timers = 1
     /\ \E c \in DOMAIN calls : calls[c].pc = "initializing" /\ calls'[c].pc = "searchReq"

C39_OneCleanupTimer == [] C39_TimerState /\ [][C39_TimerStep]_vars

\* every search went through initialize, all of them awaiting getCollection
\* at once except one that had failed before, and one timer exists
C39_Witness ==
  /\ Cardinality(Initialized) = MaxInitCalls - 1
  /\ \E c \in DOMAIN calls : calls[c].pc = "thrown"
  /\ retention.initializing = 0
  /\ retention.timers = 1
  /\ retention.lastSweep = "deleted"

(***************************************************************************)
(* The chunk length bound for chunkers whose overlap is not smaller than   *)
(* their chunk size (SpecChunk).                                           *)
(***************************************************************************)
\* C40: for every chunker with overlapSize >= maxChunkSize and every text
\* whose cleaned form is longer than maxChunkSize, no chunk splitText returns
\* is longer than maxChunkSize.
C40_BoundWithLargeOverlap ==
  Returned /\ splitCall.text.type = "string"
           /\ textChunker.overlapSize >= textChunker.maxChunkSize
           /\ Len(chunkerCleanText(splitCall.text.chars)) > textChunker.maxChunkSize =>
     \A k \in DOMAIN splitCall.chunks :
        Len(splitCall.chunks[k]) <= textChunker.maxChunkSize

====
